---- MODULE Spec2Model ----
(***************************************************************************)
(* Netflix streaming pipeline: the Azure Function process_events (batch    *)
(* processor: decode, validate, enrich, upsert, dead-letter), the Azure    *)
(* Function archive_raw, the synthetic event generator, and the pure       *)
(* functions they are built from.                                          *)
(*                                                                         *)
(* Specifications:                                                         *)
(*   Spec         the batch processor main(events), invocation after       *)
(*                invocation against one document store and one set of     *)
(*                module singletons;                                       *)
(*   SpecFn       the pure functions _validate_event, _enrich_event, the   *)
(*                dead-letter envelope and StreamingEvent.validate,        *)
(*                applied to inputs drawn from bounded sets;               *)
(*   SpecGen      one NetflixEventGenerator: construction, stop(), the     *)
(*                run() task and _publish_batch against a transport;       *)
(*   SpecGenLive  SpecGen with the run() task scheduled fairly;            *)
(*   SpecEvents   generate_batch on a constructed generator: the events    *)
(*                _generate_event builds from its random draws;            *)
(*   SpecArchive  archive_raw.main(events) against one blob container.     *)
(***************************************************************************)
EXTENDS Integers, Sequences, FiniteSets, TLC

VARIABLES
    \* -- environment and module-level singletons of process_events
    env_cosmos,        \* COSMOS_CONNECTION_STRING is set
    env_dlq,           \* DEAD_LETTER_EVENTHUB_CONNECTION is set and non-empty
    cosmos_container,  \* _cosmos_container: "None" or "container"
    dlq_producer,      \* _dlq_producer: "None" or "producer"
    store,             \* the Cosmos container: id |-> document
    \* -- one invocation of main(events)
    pc,                \* "idle", "running", "returned", "raised"
    exc,               \* the exception that left main ("" when none)
    batch_size,        \* len(events)
    events,            \* the items of the batch the loop has reached so far
    success_count,
    error_count,
    item_log,          \* per reached item: the calls main made for it, its outcome
    dlq_calls,         \* the calls of _send_to_dlq: item index, raw_body, errors
    dlq_sent,          \* the envelopes handed to producer.send_batch that went out
    upserts,           \* the calls of container.upsert_item: item index, body, ok
    \* -- SpecFn: a pure function applied to a drawn input
    fn_pc,             \* "none", "event", "validated", "enriched", "raw", "enveloped",
                       \* "model", "model_validated", "serialized"
    fn_event,          \* the decoded payload given to the function
    fn_valid,          \* result of _validate_event
    fn_enriched,       \* result of _enrich_event
    fn_raw,            \* the raw body given to the envelope builder
    fn_envelope,       \* the dead-letter envelope built from fn_raw
    fn_validated,      \* result of StreamingEvent.validate
    fn_serial,         \* results of StreamingEvent.to_json and to_dict
    \* -- SpecGen: one NetflixEventGenerator, its run() task and its transport
    ctor_args,         \* the arguments and environment __init__ is called with
    connection_string, \* self.connection_string ("" when none)
    events_per_second, \* self.events_per_second
    dry_run,           \* self.dry_run
    users,             \* self.users: the pool, <<>> before it is built
    _running,          \* self._running
    _total_sent,       \* self._total_sent
    _errors,           \* self._errors
    gen_pc,            \* where the generator is: "none", "new", "constructed",
                       \* a position of run() or of _publish_batch, "returned",
                       \* "raised", "publish_done"
    run_exc,           \* the exception that left __init__ or run() ("" when none)
    tick_batch_size,   \* run(): batch_size
    sleep_time,        \* run(): sleep_time of the last finished tick, -1 before
    ticks,             \* number of ticks the loop has started
    stop_at,           \* where run() was when stop() was last called, "" if never
    pub_caller,        \* who awaits _publish_batch: "run", "direct", "none"
    pub_events,        \* _publish_batch: len(events); the events are 1..len
    pub_next,          \* _publish_batch: index of the event the for loop is at
    batch,             \* _publish_batch: the events in the current transport batch
    added,             \* _publish_batch: added
    sent_batches,      \* the batches of this call whose send_batch completed
    pub_exc,           \* the exception that left _publish_batch ("" when none)
    pub_result,        \* the value _publish_batch returned, -1 when none
    wire_total,        \* events in batches whose send_batch completed, all calls
    pool_draws,        \* what random and uuid4 yield while __init__ builds the pool
    gb_size,           \* generate_batch: size, -1 before the first call
    gb_list,           \* generate_batch: the list built so far, then the list returned
    gb_returned,       \* generate_batch has returned gb_list
    gb_exc,            \* the exception that left generate_batch ("" when none)
    emitted,           \* the user attributes carried by the events of all calls
    \* -- SpecArchive: archive_raw.main against one blob container
    env_datalake,      \* DATALAKE_CONNECTION_STRING is set
    _blob_service_client, \* the module singleton: "None" or "client"
    arch_pc,           \* "none", "idle", "running", "returned", "raised"
    arch_exc,          \* the exception that left main ("" when none)
    arch_n,            \* len(events)
    arch_events,       \* the events of the batch the loop has reached so far
    now,               \* main: the clock reading
    blob_path,         \* main: blob_path
    lines,             \* main: lines
    payload,           \* the lines of the payload handed to upload_blob
    blobs,             \* the container: path |-> which invocation wrote it
    arch_runs,         \* number of invocations so far
    archived_log       \* the "Archived ..." lines logged: invocation, path, events

proc_vars == <<env_cosmos, env_dlq, cosmos_container, dlq_producer, store, pc, exc,
               batch_size, events, success_count, error_count, item_log,
               dlq_calls, dlq_sent, upserts>>
fn_vars == <<fn_pc, fn_event, fn_valid, fn_enriched, fn_raw, fn_envelope, fn_validated,
             fn_serial>>
gen_vars == <<ctor_args, connection_string, events_per_second, dry_run, users, _running,
              _total_sent, _errors, gen_pc, run_exc, tick_batch_size, sleep_time, ticks,
              stop_at, pub_caller, pub_events, pub_next, batch, added, sent_batches,
              pub_exc, pub_result, wire_total, pool_draws, gb_size, gb_list,
              gb_returned, gb_exc, emitted>>
arch_vars == <<env_datalake, _blob_service_client, arch_pc, arch_exc, arch_n,
               arch_events, now, blob_path, lines, payload, blobs, arch_runs,
               archived_log>>
vars == <<proc_vars, fn_vars, gen_vars, arch_vars>>

(***************************************************************************)
(* Bounds of the model.                                                    *)
(***************************************************************************)
MaxBatch == 3
MaxRuns == 2
MaxTicks == 3
MaxEvents == 2
MaxInvocations == 2

(***************************************************************************)
(* JSON values as Python sees them after json.loads.  A value is a record  *)
(* [t, v, d]: t is the Python type, v is str(value) (what an f-string      *)
(* prints), d is the key |-> value map of an object (empty otherwise).     *)
(***************************************************************************)
NoDict == <<>>
Str(s) == [t |-> "str", v |-> s, d |-> NoDict]
Num(s) == [t |-> "num", v |-> s, d |-> NoDict]
List(s) == [t |-> "list", v |-> s, d |-> NoDict]
Null == [t |-> "null", v |-> "None", d |-> NoDict]
Bool(b) == [t |-> "bool", v |-> IF b THEN "True" ELSE "False", d |-> NoDict]
\* a float and an int of integral value n, as str() prints them
Float(n) == Num(ToString(n) \o ".0")
IntNum(n) == Num(ToString(n))
Obj(dict) == [t |-> "object", v |-> "{...}", d |-> dict]

\* bool(value): empty string, 0, empty list, empty dict and None are falsy
Truthy(val) ==
    CASE val.t = "str" -> val.v # ""
      [] val.t = "num" -> val.v \notin {"0", "0.0"}
      [] val.t = "bool" -> val.v = "True"
      [] val.t = "list" -> val.v # "[]"
      [] val.t = "object" -> DOMAIN val.d # {}
      [] OTHER -> FALSE

\* hash(value) succeeds: lists and dicts are unhashable
Hashable(val) == val.t \notin {"list", "object"}

\* value in <set of str>: only a str can equal a member
InStrSet(val, S) == val.t = "str" /\ val.v \in S

\* dict.get(key): the value, or None
Get(dict, key) == IF key \in DOMAIN dict THEN dict[key] ELSE Null

\* dict[key] = value
Put(dict, key, val) == (key :> val) @@ dict

VALID_EVENT_TYPES ==
    {"video_start", "video_pause", "video_stop", "video_complete", "buffer_event"}

VALID_DEVICE_TYPES ==
    {"smart_tv", "mobile", "tablet", "desktop", "game_console", "streaming_stick"}

RequiredFields == <<"event_id", "event_type", "user_id", "content_id", "timestamp">>

(***************************************************************************)
(* A function result: exc is the exception raised ("" when it returned).   *)
(***************************************************************************)
Raised(r) == r.exc # ""

(***************************************************************************)
(* _validate_event(event): the list of violations.  event is whatever      *)
(* json.loads returned; .get on a non-dict raises AttributeError, and      *)
(* `x not in <set>` on an unhashable x raises TypeError.                   *)
(***************************************************************************)
MissingFields(dict) == SelectSeq(RequiredFields, LAMBDA f : ~Truthy(Get(dict, f)))

MissingErrors(dict) ==
    LET m == MissingFields(dict)
    IN  [k \in 1..Len(m) |-> "missing required field: " \o m[k]]

EventTypeErrors(dict) ==
    LET et == Get(dict, "event_type")
    IN  IF Truthy(et) /\ ~InStrSet(et, VALID_EVENT_TYPES)
        THEN <<"invalid event_type: " \o et.v>> ELSE <<>>

DeviceTypeErrors(dict) ==
    LET dt == Get(dict, "device_type")
    IN  IF Truthy(dt) /\ ~InStrSet(dt, VALID_DEVICE_TYPES)
        THEN <<"invalid device_type: " \o dt.v>> ELSE <<>>

_validate_event(event) ==
    IF event.t # "object"
    THEN [exc |-> "AttributeError", errors |-> <<>>]
    ELSE IF \/ (Truthy(Get(event.d, "event_type")) /\ ~Hashable(Get(event.d, "event_type")))
            \/ (Truthy(Get(event.d, "device_type")) /\ ~Hashable(Get(event.d, "device_type")))
    THEN [exc |-> "TypeError", errors |-> <<>>]
    ELSE [exc |-> "",
          errors |-> MissingErrors(event.d) \o EventTypeErrors(event.d)
                        \o DeviceTypeErrors(event.d)]

(***************************************************************************)
(* Timestamps.  The ISO-8601 texts of the model are rendered from          *)
(* [date, hh, mm, tz]; datetime.fromisoformat is the inverse of that       *)
(* rendering and fails on every other text.                                *)
(***************************************************************************)
IsoDates == {"2025-01-15"}
IsoHours == {"09", "14"}
IsoMinutes == {"00", "30"}
IsoOffsets == {"", "+00:00", "+05:30"}
IsoStamps == [date : IsoDates, hh : IsoHours, mm : IsoMinutes, tz : IsoOffsets]

isoformat(ts) == ts.date \o "T" \o ts.hh \o ":" \o ts.mm \o ":00" \o ts.tz

\* str.replace("Z", "+00:00"); the only texts of the model holding a Z are
\* the ISO texts with a trailing Z
replace_Z(s) ==
    IF \E ts \in IsoStamps : ts.tz = "" /\ s = isoformat(ts) \o "Z"
    THEN isoformat(CHOOSE ts \in IsoStamps : ts.tz = "" /\ s = isoformat(ts) \o "Z")
            \o "+00:00"
    ELSE s

fromisoformat(s) ==
    IF \E ts \in IsoStamps : isoformat(ts) = s
    THEN [exc |-> "", ts |-> CHOOSE ts \in IsoStamps : isoformat(ts) = s]
    ELSE [exc |-> "ValueError", ts |-> CHOOSE ts \in IsoStamps : TRUE]

\* ts.strftime("%Y-%m-%dT%H:00:00Z"): the fields of ts as written, no conversion
strftime_hour(ts) == ts.date \o "T" \o ts.hh \o ":00:00Z"

\* datetime.now(timezone.utc).isoformat(): one symbolic reading of the clock
UtcNowIso == "<utcnow>"
\* str(uuid.uuid4()): one symbolic fresh identifier
Uuid4 == "<uuid4>"
PROCESSING_VERSION == "1.0.0"

(***************************************************************************)
(* _enrich_event(event): mutates the dict in place and returns it.  The    *)
(* result carries the dict as the call left it, also when it raised.       *)
(***************************************************************************)
\* mutant: the document id is a fresh identifier instead of the event_id
EnrichMetadata_FreshId(dict) ==
    Put(Put(Put(dict,
        "id", Str(Uuid4)),
        "processed_at", Str(UtcNowIso)),
        "processing_version", Str(PROCESSING_VERSION))

\* mutant: the metadata is put on a new dict that keeps only event_id and
\* timestamp of the payload
EnrichMetadata_Rebuilds(dict) ==
    Put(Put(Put([k \in DOMAIN dict \cap {"event_id", "timestamp"} |-> dict[k]],
        "id", IF "event_id" \in DOMAIN dict THEN dict["event_id"] ELSE Str(Uuid4)),
        "processed_at", Str(UtcNowIso)),
        "processing_version", Str(PROCESSING_VERSION))

EnrichMetadata(dict) ==
    Put(Put(Put(dict,
        "id", IF "event_id" \in DOMAIN dict THEN dict["event_id"] ELSE Str(Uuid4)),
        "processed_at", Str(UtcNowIso)),
        "processing_version", Str(PROCESSING_VERSION))

HourBucket(stamp) ==
    LET parsed == fromisoformat(replace_Z(stamp.v))
    IN  IF Raised(parsed) THEN Null ELSE Str(strftime_hour(parsed.ts))

_enrich_event(dict) ==
    LET e == EnrichMetadata(dict)
    IN  IF "timestamp" \notin DOMAIN e
        THEN [exc |-> "", event |-> Put(e, "hour_bucket", Null)]
        ELSE IF e["timestamp"].t # "str"
        THEN [exc |-> "AttributeError", event |-> e]
        ELSE [exc |-> "", event |-> Put(e, "hour_bucket", HourBucket(e["timestamp"]))]

(***************************************************************************)
(* Python strings by their characters: a run-length list of runs [n, w],   *)
(* n characters whose UTF-8 encoding takes w bytes each.                   *)
(***************************************************************************)
RECURSIVE CharLen(_)
CharLen(runs) == IF runs = <<>> THEN 0 ELSE Head(runs).n + CharLen(Tail(runs))

RECURSIVE ByteLen(_)
ByteLen(runs) ==
    IF runs = <<>> THEN 0 ELSE Head(runs).n * Head(runs).w + ByteLen(Tail(runs))

\* s[:k], k >= 0: the first k characters
RECURSIVE Slice(_, _)
Slice(runs, k) ==
    IF k <= 0 \/ runs = <<>> THEN <<>>
    ELSE IF Head(runs).n <= k
         THEN <<Head(runs)>> \o Slice(Tail(runs), k - Head(runs).n)
         ELSE <<[n |-> k, w |-> Head(runs).w]>>

DLQ_MAX_CHARS == 8192

\* mutant: the raw body is embedded whole
DlqPayload_NoTruncation(raw_body, errors) ==
    [original_event |-> raw_body.chars,
     validation_errors |-> errors,
     rejected_at |-> UtcNowIso]

\* the dict _send_to_dlq serialises: original_event, validation_errors, rejected_at
DlqPayload(raw_body, errors) ==
    [original_event |-> Slice(raw_body.chars, DLQ_MAX_CHARS),
     validation_errors |-> errors,
     rejected_at |-> UtcNowIso]

(***************************************************************************)
(* The raw items of a batch.  An EventHubEvent body is bytes: utf8 says    *)
(* whether they decode, text is the decoded str: its characters, whether   *)
(* it is well-formed JSON, and the value json.loads gives for it.          *)
(***************************************************************************)
Ascii(n) == <<[n |-> n, w |-> 1]>>

Body(utf8, chars, wf, data) ==
    [utf8 |-> utf8, text |-> [chars |-> chars, wf |-> wf, data |-> data]]

BaseEvent ==
    [event_id |-> Str("e1"), event_type |-> Str("video_start"),
     user_id |-> Str("U0000001"), content_id |-> Str("NF001"),
     timestamp |-> Str("2025-01-15T14:30:00Z"), device_type |-> Str("smart_tv")]

Without(dict, key) == [k \in DOMAIN dict \ {key} |-> dict[k]]

\* a valid event
ItemValidE1 == Body(TRUE, Ascii(180), TRUE, Obj(BaseEvent))
\* the same event_id again with other content, and no device_type
ItemValidE1NoDevice ==
    Body(TRUE, Ascii(150), TRUE,
         Obj(Without(Put(BaseEvent, "event_type", Str("video_stop")), "device_type")))
\* another valid event, which already carries an id of its own
ItemValidE2 ==
    Body(TRUE, Ascii(181), TRUE,
         Obj(Put(Put(BaseEvent, "event_id", Str("e2")), "id", Str("stale-id"))))
\* an object the validator rejects: no user_id, unknown event_type
ItemRejected ==
    Body(TRUE, Ascii(140), TRUE,
         Obj(Without(Put(BaseEvent, "event_type", Str("video_explode")), "user_id")))
\* an object whose event_type is a list
ItemListEventType ==
    Body(TRUE, Ascii(190), TRUE,
         Obj(Put(BaseEvent, "event_type", List("['video_start']"))))
\* an object whose timestamp is a number
ItemNumericTimestamp ==
    Body(TRUE, Ascii(170), TRUE, Obj(Put(BaseEvent, "timestamp", Num("1736951400"))))
\* well-formed JSON that is an array
ItemJsonArray == Body(TRUE, Ascii(6), TRUE, List("[1, 2]"))
\* text that is not JSON: 9000 characters of 3 bytes each
ItemMalformed == Body(TRUE, <<[n |-> DLQ_MAX_CHARS + 808, w |-> 3]>>, FALSE, Null)
\* bytes that are not UTF-8
ItemBadUtf8 == Body(FALSE, <<>>, FALSE, Null)

Items ==
    {ItemValidE1, ItemValidE1NoDevice, ItemValidE2, ItemRejected, ItemListEventType,
     ItemNumericTimestamp, ItemJsonArray, ItemMalformed, ItemBadUtf8}

\* event.get_body().decode("utf-8")
decode_utf8(body) ==
    IF body.utf8 THEN [exc |-> "", str |-> body.text]
    ELSE [exc |-> "UnicodeDecodeError", str |-> body.text]

\* json.loads(raw_body)
json_loads(text) ==
    IF text.wf THEN [exc |-> "", data |-> text.data]
    ELSE [exc |-> "JSONDecodeError", data |-> Null]

\* what the loop body computes for one item before it touches the sink or
\* the store: each call is made only if the one before it returned
Pipeline(body) ==
    LET dec == decode_utf8(body)
        js == json_loads(dec.str)
        val == _validate_event(js.data)
        enr == _enrich_event(js.data.d)
    IN  IF Raised(dec) THEN [stage |-> "decode", exc |-> dec.exc]
        ELSE IF Raised(js) THEN [stage |-> "json.loads", exc |-> js.exc, raw_body |-> dec.str]
        ELSE IF Raised(val) THEN [stage |-> "_validate_event", exc |-> val.exc]
        ELSE IF val.errors # <<>>
             THEN [stage |-> "_validate_event", exc |-> "", raw_body |-> dec.str,
                   errors |-> val.errors]
        ELSE [stage |-> "_enrich_event", exc |-> enr.exc, enriched |-> enr.event]

\* Pipeline over the items of the model
PipelineOf == [body \in Items |-> Pipeline(body)]

(***************************************************************************)
(* Module singletons.                                                      *)
(***************************************************************************)
\* _get_cosmos_container(): os.environ["COSMOS_CONNECTION_STRING"] raises
\* KeyError when the variable is not set
_get_cosmos_container ==
    IF cosmos_container # "None" THEN [exc |-> "", container |-> cosmos_container]
    ELSE IF env_cosmos THEN [exc |-> "", container |-> "container"]
    ELSE [exc |-> "KeyError", container |-> "None"]

\* _get_dlq_producer(): built once when the connection is configured
_get_dlq_producer ==
    IF dlq_producer = "None" /\ env_dlq THEN "producer" ELSE dlq_producer

\* container.upsert_item(body): insert or replace, keyed by the id field
upsert_item(container, body) == (body["id"].v :> body) @@ container

(***************************************************************************)
(* _send_to_dlq(raw_body, errors).  outcome is what the transport does:    *)
(* "unconfigured" (no producer), "sent", or the call that raised.          *)
(***************************************************************************)
DlqFailures == {"create_batch", "add", "send_batch"}

\* mutant: no try/except around the send: a transport error propagates
DlqPropagates_NoTry(outcome) == IF outcome \in DlqFailures THEN "EventHubError" ELSE ""

\* the try/except Exception around the build and the send: what still
\* propagates to the caller
DlqPropagates(outcome) == ""

_send_to_dlq(item, raw_body, errors, outcome) ==
    /\ dlq_producer' = _get_dlq_producer
    /\ IF _get_dlq_producer = "None"
       THEN outcome = "unconfigured"
       ELSE outcome \in {"sent"} \cup DlqFailures
    /\ dlq_calls' = Append(dlq_calls, [item |-> item, raw_body |-> raw_body,
                                       errors |-> errors, outcome |-> outcome])
    /\ dlq_sent' = IF outcome = "sent"
                   THEN Append(dlq_sent, DlqPayload(raw_body, errors))
                   ELSE dlq_sent

DlqOutcomes == {"unconfigured", "sent"} \cup DlqFailures

(***************************************************************************)
(* main(events): one action starts the invocation, one action per path of  *)
(* the loop body handles the next item; the step that handles the last     *)
(* item also returns.  The items are drawn when the loop reaches them.     *)
(***************************************************************************)
Invoke(n) ==
    /\ pc # "running"
    /\ fn_pc = "none"
    /\ batch_size' = n
    /\ events' = <<>>
    /\ item_log' = <<>>
    /\ dlq_calls' = <<>>
    /\ dlq_sent' = <<>>
    /\ upserts' = <<>>
    /\ success_count' = 0
    /\ error_count' = 0
    /\ cosmos_container' = _get_cosmos_container.container
    /\ exc' = _get_cosmos_container.exc
    /\ pc' = IF Raised(_get_cosmos_container) THEN "raised"
             ELSE IF n = 0 THEN "returned" ELSE "running"
    /\ UNCHANGED <<env_cosmos, env_dlq, dlq_producer, store, fn_vars, gen_vars, arch_vars>>

\* the end of one pass of the loop body: the item is logged, the counters
\* move, and the loop goes on, returns after the last item, or main raises
EndItem(body, calls, outcome, raised, succ, err) ==
    /\ events' = Append(events, body)
    /\ item_log' = Append(item_log, [calls |-> calls, outcome |-> outcome])
    /\ success_count' = success_count + succ
    /\ error_count' = error_count + err
    /\ exc' = raised
    /\ pc' = IF raised # "" THEN "raised"
             ELSE IF Len(events) + 1 = batch_size THEN "returned" ELSE "running"
    /\ UNCHANGED <<env_cosmos, env_dlq, cosmos_container, batch_size, fn_vars, gen_vars, arch_vars>>

Running == pc = "running" /\ Len(events) < batch_size

\* line 133: the bytes are not UTF-8; decode is outside every try
ItemUndecodable ==
    \E body \in Items :
        /\ Running
        /\ PipelineOf[body].stage = "decode"
        /\ EndItem(body, <<"decode">>, "raised", PipelineOf[body].exc, 0, 0)
        /\ UNCHANGED <<dlq_producer, dlq_calls, dlq_sent, store, upserts>>

\* dead-letter an item and count it, unless _send_to_dlq propagates
Reject(body, calls, raw_body, errors, outcome) ==
    /\ _send_to_dlq(Len(events) + 1, raw_body, errors, outcome)
    /\ IF DlqPropagates(outcome) # ""
       THEN EndItem(body, calls, "raised", DlqPropagates(outcome), 0, 0)
       ELSE EndItem(body, calls, "dead_lettered", "", 0, 1)
    /\ UNCHANGED <<store, upserts>>

\* lines 134-140: json.loads raises JSONDecodeError
ItemMalformedJson ==
    \E body \in Items, outcome \in DlqOutcomes :
        /\ Running
        /\ PipelineOf[body].stage = "json.loads"
        /\ Reject(body, <<"decode", "json.loads", "_send_to_dlq">>,
                  PipelineOf[body].raw_body, <<"invalid JSON">>, outcome)

\* line 142: _validate_event itself raises
ItemValidatorRaises ==
    \E body \in Items :
        /\ Running
        /\ PipelineOf[body].stage = "_validate_event"
        /\ PipelineOf[body].exc # ""
        /\ EndItem(body, <<"decode", "json.loads", "_validate_event">>, "raised",
                   PipelineOf[body].exc, 0, 0)
        /\ UNCHANGED <<dlq_producer, dlq_calls, dlq_sent, store, upserts>>

\* lines 142-147: a non-empty violation list
ItemInvalid ==
    \E body \in Items, outcome \in DlqOutcomes :
        /\ Running
        /\ PipelineOf[body].stage = "_validate_event"
        /\ PipelineOf[body].exc = ""
        /\ Reject(body, <<"decode", "json.loads", "_validate_event", "_send_to_dlq">>,
                  PipelineOf[body].raw_body, PipelineOf[body].errors, outcome)

\* line 149: _enrich_event raises
ItemEnrichRaises ==
    \E body \in Items :
        /\ Running
        /\ PipelineOf[body].stage = "_enrich_event"
        /\ PipelineOf[body].exc # ""
        /\ EndItem(body, <<"decode", "json.loads", "_validate_event", "_enrich_event">>,
                   "raised", PipelineOf[body].exc, 0, 0)
        /\ UNCHANGED <<dlq_producer, dlq_calls, dlq_sent, store, upserts>>

PersistCalls ==
    <<"decode", "json.loads", "_validate_event", "_enrich_event", "upsert_item">>

\* lines 152-154: the upsert succeeds
ItemPersisted ==
    \E body \in Items :
        /\ Running
        /\ PipelineOf[body].stage = "_enrich_event"
        /\ PipelineOf[body].exc = ""
        /\ store' = upsert_item(store, PipelineOf[body].enriched)
        /\ upserts' = Append(upserts, [item |-> Len(events) + 1, ok |-> TRUE,
                                       body |-> PipelineOf[body].enriched])
        /\ EndItem(body, PersistCalls, "persisted", "", 1, 0)
        /\ UNCHANGED <<dlq_producer, dlq_calls, dlq_sent>>

StoreErrors == {"CosmosHttpResponseError", "Exception"}

\* mutant: success_count is incremented before the write is attempted
ItemPersistFailed_CountsSuccess ==
    \E body \in Items, err \in StoreErrors :
        /\ Running
        /\ PipelineOf[body].stage = "_enrich_event"
        /\ PipelineOf[body].exc = ""
        /\ upserts' = Append(upserts, [item |-> Len(events) + 1, ok |-> FALSE,
                                       body |-> PipelineOf[body].enriched])
        /\ EndItem(body, PersistCalls, "persist_failed", "", 1, 1)
        /\ UNCHANGED <<dlq_producer, dlq_calls, dlq_sent, store>>

\* mutant: an item the store refused is handed to the dead-letter path
ItemPersistFailed_DeadLetters ==
    \E body \in Items, err \in StoreErrors, outcome \in DlqOutcomes :
        /\ Running
        /\ PipelineOf[body].stage = "_enrich_event"
        /\ PipelineOf[body].exc = ""
        /\ upserts' = Append(upserts, [item |-> Len(events) + 1, ok |-> FALSE,
                                       body |-> PipelineOf[body].enriched])
        /\ _send_to_dlq(Len(events) + 1, body.text, <<"store write failed">>, outcome)
        /\ EndItem(body, PersistCalls, "persist_failed", "", 0, 1)
        /\ UNCHANGED store

\* lines 155-162: the upsert raises; both handlers count an error
ItemPersistFailed ==
    \E body \in Items, err \in StoreErrors :
        /\ Running
        /\ PipelineOf[body].stage = "_enrich_event"
        /\ PipelineOf[body].exc = ""
        /\ upserts' = Append(upserts, [item |-> Len(events) + 1, ok |-> FALSE,
                                       body |-> PipelineOf[body].enriched])
        /\ EndItem(body, PersistCalls, "persist_failed", "", 0, 1)
        /\ UNCHANGED <<dlq_producer, dlq_calls, dlq_sent, store>>

FnIdle ==
    /\ fn_pc = "none"
    /\ fn_event = Null
    /\ fn_valid = [exc |-> "", errors |-> <<>>]
    /\ fn_enriched = [exc |-> "", event |-> NoDict]
    /\ fn_raw = [chars |-> <<>>, wf |-> FALSE, data |-> Null]
    /\ fn_envelope = DlqPayload([chars |-> <<>>], <<>>)
    /\ fn_validated = [exc |-> "", msg |-> "", ret |-> "None", event |-> NoDict]
    /\ fn_serial = [json |-> "", dict |-> NoDict]

ProcIdle ==
    /\ cosmos_container = "None"
    /\ dlq_producer = "None"
    /\ store = NoDict
    /\ pc = "idle"
    /\ exc = ""
    /\ batch_size = 0
    /\ events = <<>>
    /\ success_count = 0
    /\ error_count = 0
    /\ item_log = <<>>
    /\ dlq_calls = <<>>
    /\ dlq_sent = <<>>
    /\ upserts = <<>>

NoArgs == [connection_string |-> "", env |-> "", events_per_second |-> 0,
           num_users |-> 0, dry_run |-> FALSE]

\* no generator exists
GenFields ==
    /\ connection_string = ""
    /\ events_per_second = 0
    /\ dry_run = FALSE
    /\ users = <<>>
    /\ _running = FALSE
    /\ _total_sent = 0
    /\ _errors = 0
    /\ run_exc = ""
    /\ tick_batch_size = 0
    /\ sleep_time = -1
    /\ ticks = 0
    /\ stop_at = ""
    /\ pub_caller = "none"
    /\ pub_events = 0
    /\ pub_next = 0
    /\ batch = <<>>
    /\ added = 0
    /\ sent_batches = <<>>
    /\ pub_exc = ""
    /\ pub_result = -1
    /\ wire_total = 0
    /\ gb_size = -1
    /\ gb_list = <<>>
    /\ gb_returned = FALSE
    /\ gb_exc = ""
    /\ emitted = {}

GenIdle ==
    /\ gen_pc = "none"
    /\ ctor_args = NoArgs
    /\ pool_draws = <<>>
    /\ GenFields

\* archive_raw has not been invoked
ArchFields ==
    /\ _blob_service_client = "None"
    /\ arch_exc = ""
    /\ arch_n = 0
    /\ arch_events = <<>>
    /\ now = [iso |-> "", date |-> "", hh |-> "", stamp |-> ""]
    /\ blob_path = ""
    /\ lines = <<>>
    /\ payload = <<>>
    /\ blobs = <<>>
    /\ arch_runs = 0
    /\ archived_log = <<>>

ArchIdle ==
    /\ env_datalake = FALSE
    /\ arch_pc = "none"
    /\ ArchFields

Init ==
    /\ env_cosmos \in BOOLEAN
    /\ env_dlq \in BOOLEAN
    /\ ProcIdle
    /\ FnIdle
    /\ GenIdle
    /\ ArchIdle

Next ==
    \/ \E n \in 0..MaxBatch : Invoke(n)
    \/ ItemUndecodable
    \/ ItemMalformedJson
    \/ ItemValidatorRaises
    \/ ItemInvalid
    \/ ItemEnrichRaises
    \/ ItemPersisted
    \/ ItemPersistFailed

Spec == Init /\ [][Next]_vars

(***************************************************************************)
(* SpecFn: the pure functions on inputs drawn from bounded sets.           *)
(***************************************************************************)
Absent == [t |-> "absent", v |-> "", d |-> NoDict]

\* the dict holding the keys of a choice that are not Absent
MakeDict(choice) == [k \in {x \in DOMAIN choice : choice[x] # Absent} |-> choice[k]]

FnChoices ==
    [event_id : {Absent, Str(""), Str("e1")},
     event_type : {Absent, Null, Str(""), Str("video_start"), Str("video_explode"),
                   Num("7"), List("['video_start']")},
     user_id : {Absent, Str("U0000001")},
     content_id : {Absent, Str("NF001")},
     timestamp : {Absent, Str("2025-01-15T14:30:00Z"), Str("not-a-timestamp"),
                  Num("1736951400"), List("[2025, 1, 15]"),
                  Str("2025-01-15T14:30:00+05:30"), Str("2025-01-15T09:00:00+00:00"),
                  Str("2025-01-15T09:00:00Z")},
     device_type : {Absent, Str(""), Str("smart_tv"), Str("toaster"), List("['tv']")},
     id : {Absent, Str("other-id")},
     hour_bucket : {Absent, Str("1999-01-01T00:00:00Z")}]

\* decoded payloads: objects, and JSON values that are not objects
FnPayloads ==
    {Obj(MakeDict(c)) : c \in FnChoices} \cup {List("[1, 2]"), Str("text"), Num("42"), Null}

Utf8Widths == 1..4
RunLengths == {1, DLQ_MAX_CHARS - 1, DLQ_MAX_CHARS, DLQ_MAX_CHARS + 1}
Runs == [n : RunLengths, w : Utf8Widths]

\* character sequences of at most MaxRuns runs, adjacent runs of different width
FnCharSeqs ==
    {cs \in UNION {[1..k -> Runs] : k \in 0..MaxRuns} :
        \A j \in 1..(Len(cs) - 1) : cs[j].w # cs[j + 1].w}

FnRawBodies == {[chars |-> cs, wf |-> FALSE, data |-> Null] : cs \in FnCharSeqs}

(***************************************************************************)
(* StreamingEvent (data_generator/models.py): a dataclass instance is the  *)
(* map of its fields; to_dict drops the fields whose value is None.        *)
(***************************************************************************)
StreamingEvents ==
    [event_id : {Null, Str(""), Str("e1")},
     event_type : {Null, Str(""), Str("video_start"), Str("video_explode")},
     user_id : {Str(""), Str("U0000001")},
     content_id : {Str(""), Str("NF001")},
     timestamp : {Str(""), Str("2025-01-15T14:30:00+00:00")},
     device_type : {Null, Str(""), Str("smart_tv"), Str("toaster")},
     location : {Obj(NoDict), Obj([country |-> Str("US"), city |-> Null])},
     buffer_duration_ms : {Null, Num("750.0")},
     error_code : {Null, Str("E1001")}]

\* asdict(self) without the None values
to_dict(self) == [k \in {f \in DOMAIN self : self[f] # Null} |-> self[k]]

\* json.dumps(value): the JSON text, as the tree of its tokens
RECURSIVE json_dumps(_)
json_dumps(val) ==
    CASE val.t = "str" -> [tok |-> "string", text |-> val.v, members |-> NoDict]
      [] val.t = "num" -> [tok |-> "number", text |-> val.v, members |-> NoDict]
      [] val.t = "bool" -> [tok |-> IF val.v = "True" THEN "true" ELSE "false",
                            text |-> "", members |-> NoDict]
      [] val.t = "null" -> [tok |-> "null", text |-> "", members |-> NoDict]
      [] val.t = "list" -> [tok |-> "array", text |-> val.v, members |-> NoDict]
      [] OTHER -> [tok |-> "object", text |-> "",
                   members |-> [k \in DOMAIN val.d |-> json_dumps(val.d[k])]]

\* json.loads(text) of a text json.dumps wrote
RECURSIVE json_parse(_)
json_parse(text) ==
    CASE text.tok = "string" -> Str(text.text)
      [] text.tok = "number" -> Num(text.text)
      [] text.tok = "true" -> Bool(TRUE)
      [] text.tok = "false" -> Bool(FALSE)
      [] text.tok = "null" -> Null
      [] text.tok = "array" -> List(text.text)
      [] OTHER -> Obj([k \in DOMAIN text.members |-> json_parse(text.members[k])])

\* mutant: to_json serializes asdict(self) as it is
to_json_KeepsNone(self) == json_dumps(Obj(self))

\* to_json(): asdict(self) without the None values, through json.dumps
to_json(self) == json_dumps(Obj([k \in {f \in DOMAIN self : self[f] # Null} |-> self[k]]))

\* validate(): the list `required`
required == <<"event_id", "event_type", "user_id", "content_id", "timestamp", "device_type">>

\* the required fields that are not in data or are falsy there, in order
MissingRequired(data) ==
    SelectSeq(required, LAMBDA f : f \notin DOMAIN data \/ ~Truthy(data[f]))

\* mutant: the loop reports the last missing field
ReportedMissing_Last(data) == MissingRequired(data)[Len(MissingRequired(data))]

\* the field the for loop raises on: the first one it meets
ReportedMissing(data) == Head(MissingRequired(data))

\* validate(self): True, or ValueError with its message; self is untouched
validate(self) ==
    LET data == to_dict(self)
    IN  IF MissingRequired(data) # <<>>
        THEN [exc |-> "ValueError",
              msg |-> "Missing required field: " \o ReportedMissing(data),
              ret |-> "None", event |-> self]
        ELSE IF ~InStrSet(self["event_type"], VALID_EVENT_TYPES)
        THEN [exc |-> "ValueError", msg |-> "Invalid event_type: " \o self["event_type"].v,
              ret |-> "None", event |-> self]
        ELSE IF ~InStrSet(self["device_type"], VALID_DEVICE_TYPES)
        THEN [exc |-> "ValueError", msg |-> "Invalid device_type: " \o self["device_type"].v,
              ret |-> "None", event |-> self]
        ELSE [exc |-> "", msg |-> "", ret |-> "True", event |-> self]

InitFn ==
    /\ env_cosmos = FALSE
    /\ env_dlq = FALSE
    /\ ProcIdle
    /\ GenIdle
    /\ ArchIdle
    /\ fn_valid = [exc |-> "", errors |-> <<>>]
    /\ fn_enriched = [exc |-> "", event |-> NoDict]
    /\ fn_envelope = DlqPayload([chars |-> <<>>], <<>>)
    /\ fn_validated = [exc |-> "", msg |-> "", ret |-> "None", event |-> NoDict]
    /\ fn_serial = [json |-> "", dict |-> NoDict]
    /\ \/ /\ fn_pc = "event"
          /\ fn_event \in FnPayloads
          /\ fn_raw = [chars |-> <<>>, wf |-> FALSE, data |-> Null]
       \/ /\ fn_pc = "raw"
          /\ fn_event = Null
          /\ fn_raw \in FnRawBodies
       \/ /\ fn_pc = "model"
          /\ fn_event \in {Obj(ev) : ev \in StreamingEvents}
          /\ fn_raw = [chars |-> <<>>, wf |-> FALSE, data |-> Null]

\* errors = _validate_event(event)
FnValidate ==
    /\ fn_pc = "event"
    /\ fn_valid' = _validate_event(fn_event)
    /\ fn_pc' = "validated"
    /\ UNCHANGED <<proc_vars, gen_vars, arch_vars, fn_event, fn_enriched, fn_raw, fn_envelope,
                   fn_validated, fn_serial>>

\* enriched = _enrich_event(event), on any dict
FnEnrich ==
    /\ fn_pc \in {"event", "validated"}
    /\ fn_event.t = "object"
    /\ fn_enriched' = _enrich_event(fn_event.d)
    /\ fn_pc' = "enriched"
    /\ UNCHANGED <<proc_vars, gen_vars, arch_vars, fn_event, fn_valid, fn_raw, fn_envelope,
                   fn_validated, fn_serial>>

\* the envelope _send_to_dlq builds for a raw body
FnEnvelope ==
    /\ fn_pc = "raw"
    /\ fn_envelope' = DlqPayload(fn_raw, <<"invalid JSON">>)
    /\ fn_pc' = "enveloped"
    /\ UNCHANGED <<proc_vars, gen_vars, arch_vars, fn_event, fn_valid, fn_enriched, fn_raw,
                   fn_validated, fn_serial>>

\* event.validate() on a StreamingEvent
FnModelValidate ==
    /\ fn_pc = "model"
    /\ fn_validated' = validate(fn_event.d)
    /\ fn_pc' = "model_validated"
    /\ UNCHANGED <<proc_vars, gen_vars, arch_vars, fn_event, fn_valid, fn_enriched, fn_raw,
                   fn_envelope, fn_serial>>

\* event.to_json() and event.to_dict() on a StreamingEvent
FnSerialize ==
    /\ fn_pc = "model"
    /\ fn_serial' = [json |-> to_json(fn_event.d), dict |-> to_dict(fn_event.d)]
    /\ fn_pc' = "serialized"
    /\ UNCHANGED <<proc_vars, gen_vars, arch_vars, fn_event, fn_valid, fn_enriched, fn_raw,
                   fn_envelope, fn_validated>>

NextFn ==
    \/ FnValidate
    \/ FnEnrich
    \/ FnEnvelope
    \/ FnModelValidate
    \/ FnSerialize

SpecFn == InitFn /\ [][NextFn]_vars

(***************************************************************************)
(* NetflixEventGenerator: __init__, stop(), run() with its publishing loop *)
(* and _dry_run_loop, and _publish_batch against an Event Hubs producer.   *)
(* run() is one asyncio task: it is modelled by one action per stretch of  *)
(* code between awaits, one per outcome of the awaited call.  The events   *)
(* of a tick are 1..batch_size; a transport batch is the list of the       *)
(* events added to it.                                                     *)
(***************************************************************************)
Rates == {1, 10, 15, 20}
PoolSizes == {1, 2}
ConnStrings == {"", "Endpoint=sb://hub"}

CtorArgs ==
    [connection_string : ConnStrings, env : ConnStrings, events_per_second : Rates,
     num_users : PoolSizes, dry_run : BOOLEAN]

\* interval = 1.0 / 10, in milliseconds
INTERVAL_MS == 100
\* time.monotonic() - loop_start, in milliseconds
ElapsedMs == {0, 40, 100, 250}

Max(a, b) == IF a >= b THEN a ELSE b

\* the tables of generator.py; of the twenty catalog entries and the fifteen
\* locations the model keeps two each, with the fields the events copy
CONTENT_CATALOG ==
    <<[id |-> "NF001", title |-> "Stranger Things S4", type |-> "tv_episode",
       duration |-> 4500],
      [id |-> "NF003", title |-> "Glass Onion", type |-> "movie", duration |-> 8400]>>

LOCATIONS ==
    <<Obj([country |-> Str("US"), city |-> Str("Los Angeles")]),
      Obj([country |-> Str("UK"), city |-> Str("London")])>>

SUBSCRIPTION_TIERS == <<"basic", "standard", "premium">>

QUALITY_MAP ==
    [basic |-> << <<"480p", 2500>> >>,
     standard |-> << <<"720p", 5000>>, <<"1080p", 8000>> >>,
     premium |-> << <<"1080p", 8000>>, <<"4K", 16000>>, <<"4K_HDR", 20000>> >>]

\* the keys of DEVICE_WEIGHTS and of EVENT_WEIGHTS; every weight is positive
DEVICE_WEIGHTS ==
    <<"smart_tv", "mobile", "tablet", "desktop", "game_console", "streaming_stick">>
\* mutant: the generator also emits a sixth kind of event
EVENT_WEIGHTS_WithSeek ==
    <<"video_start", "video_pause", "video_stop", "video_complete", "buffer_event",
      "video_seek">>
EVENT_WEIGHTS ==
    <<"video_start", "video_pause", "video_stop", "video_complete", "buffer_event">>

\* f"{i:07d}"
Pad7(i) == IF i < 10 THEN "000000" \o ToString(i) ELSE "00000" \o ToString(i)

\* what the random module and uuid4 yield for one user of the pool: the tier,
\* randint(1, 5), the device type, the device id, the index of the location
FirstDraw ==
    [tier |-> "basic", randint |-> 1, device_type |-> "smart_tv",
     device_id |-> "<uuid4-a>", location |-> 1]
SecondDraw ==
    [tier |-> "standard", randint |-> 5, device_type |-> "mobile",
     device_id |-> "<uuid4-b>", location |-> 2]
ThirdDraw ==
    [tier |-> "premium", randint |-> 3, device_type |-> "streaming_stick",
     device_id |-> "<uuid4-c>", location |-> 1]
\* the streams of such draws the model starts __init__ with
DrawStreams == {<<FirstDraw, SecondDraw>>, <<ThirdDraw, FirstDraw>>}
PoolDraws(num_users) == {SubSeq(st, 1, num_users) : st \in DrawStreams}

\* the user records, in the order of range(num_users)
_build_user_pool(num_users, draws) ==
    [i \in 1..num_users |->
        [user_id |-> "U" \o Pad7(i - 1),
         profile_id |-> "P" \o Pad7(i - 1) \o "_" \o ToString(draws[i].randint),
         device_type |-> draws[i].device_type,
         device_id |-> draws[i].device_id,
         location |-> LOCATIONS[draws[i].location],
         subscription_tier |-> draws[i].tier]]

cfg_vars == <<ctor_args, connection_string, events_per_second, dry_run, users, pool_draws>>
gb_vars == <<gb_size, gb_list, gb_returned, gb_exc, emitted>>
pub_vars == <<pub_caller, pub_events, pub_next, batch, added, sent_batches, pub_exc,
              pub_result>>
not_gen_vars == <<proc_vars, fn_vars, arch_vars>>

\* NetflixEventGenerator(...): lines 114-124; nothing in it raises
Construct ==
    /\ gen_pc = "new"
    /\ connection_string' = IF ctor_args.connection_string # ""
                            THEN ctor_args.connection_string ELSE ctor_args.env
    /\ events_per_second' = ctor_args.events_per_second
    /\ dry_run' = ctor_args.dry_run
    /\ _running' = FALSE
    /\ _total_sent' = 0
    /\ _errors' = 0
    /\ users' = _build_user_pool(ctor_args.num_users, pool_draws)
    /\ ctor_args' = NoArgs
    /\ pool_draws' = <<>>
    /\ gen_pc' = "constructed"
    /\ UNCHANGED <<run_exc, tick_batch_size, sleep_time, ticks, stop_at, wire_total,
                   pub_vars, gb_vars, not_gen_vars>>

\* stop() has been called on the generator
stop_called == stop_at # ""

\* mutant: stop() cancels the task, which leaves its loop where it is
Stop_CancelsTask ==
    /\ gen_pc \notin {"none", "new"}
    /\ _running' = FALSE
    /\ stop_at' = gen_pc
    /\ gen_pc' = IF gen_pc \in {"constructed", "returned", "raised", "publish_done"}
                    \/ pub_caller = "direct"
                 THEN gen_pc ELSE "returned"
    /\ UNCHANGED <<cfg_vars, _total_sent, _errors, run_exc, tick_batch_size,
                   sleep_time, ticks, wire_total, pub_vars, gb_vars, not_gen_vars>>

\* stop(): callable on the object at any time
Stop ==
    /\ gen_pc \notin {"none", "new"}
    /\ _running' = FALSE
    /\ stop_at' = gen_pc
    /\ UNCHANGED <<cfg_vars, _total_sent, _errors, gen_pc, run_exc, tick_batch_size,
                   sleep_time, ticks, wire_total, pub_vars, gb_vars, not_gen_vars>>

\* run(), lines 234-253: up to the first loop condition
RunStart ==
    /\ gen_pc = "constructed"
    /\ _running' = TRUE
    /\ tick_batch_size' = Max(1, events_per_second \div 10)
    /\ IF dry_run
       THEN gen_pc' = "dry_loop" /\ run_exc' = ""
       ELSE IF connection_string = ""
       THEN gen_pc' = "raised" /\ run_exc' = "ValueError"
       ELSE gen_pc' = "loop" /\ run_exc' = ""
    /\ UNCHANGED <<cfg_vars, _total_sent, _errors, sleep_time, ticks, stop_at,
                   wire_total, pub_vars, gb_vars, not_gen_vars>>

\* _publish_batch(producer, events) is entered and awaits create_batch()
StartPublish(caller, n) ==
    /\ pub_caller' = caller
    /\ pub_events' = n
    /\ pub_next' = 1
    /\ batch' = <<>>
    /\ added' = 0
    /\ sent_batches' = <<>>
    /\ pub_exc' = ""
    /\ pub_result' = -1
    /\ gen_pc' = "create_batch"

\* lines 255-259: the loop condition holds; a tick generates its batch and
\* publishes it
TickStart ==
    /\ gen_pc = "loop"
    /\ _running
    /\ ticks < MaxTicks
    /\ ticks' = ticks + 1
    /\ StartPublish("run", tick_batch_size)
    /\ UNCHANGED <<cfg_vars, _running, _total_sent, _errors, run_exc, tick_batch_size,
                   sleep_time, stop_at, wire_total, gb_vars, not_gen_vars>>

\* lines 255-268 past the bound of the model: the loop goes on ticking, the
\* ticks and their effect on the counters are no longer tracked
TickBeyondBound ==
    /\ gen_pc = "loop"
    /\ _running
    /\ ticks = MaxTicks
    /\ gen_pc' = "sleep"
    /\ UNCHANGED <<cfg_vars, _running, _total_sent, _errors, run_exc, tick_batch_size,
                   sleep_time, ticks, stop_at, wire_total, pub_vars, gb_vars, not_gen_vars>>

\* lines 255, 274-275: the loop condition fails; finally awaits close()
LoopExit ==
    /\ gen_pc = "loop"
    /\ ~_running
    /\ gen_pc' = "close"
    /\ UNCHANGED <<cfg_vars, _running, _total_sent, _errors, run_exc, tick_batch_size,
                   sleep_time, ticks, stop_at, wire_total, pub_vars, gb_vars, not_gen_vars>>

\* producer.close() completes and run() returns
CloseDone ==
    /\ gen_pc = "close"
    /\ gen_pc' = "returned"
    /\ UNCHANGED <<cfg_vars, _running, _total_sent, _errors, run_exc, tick_batch_size,
                   sleep_time, ticks, stop_at, wire_total, pub_vars, gb_vars, not_gen_vars>>

\* _publish_batch awaited directly on a list of n events
PublishCall(n) ==
    /\ gen_pc = "constructed"
    /\ StartPublish("direct", n)
    /\ UNCHANGED <<cfg_vars, _running, _total_sent, _errors, run_exc, tick_batch_size,
                   sleep_time, ticks, stop_at, wire_total, gb_vars, not_gen_vars>>

\* line 260: self._total_sent += sent
OnPublished(sent) ==
    /\ _total_sent' = _total_sent + sent
    /\ _errors' = _errors

\* mutant: one error per event of the failed batch
OnPublishError_PerEvent ==
    /\ _errors' = _errors + pub_events
    /\ _total_sent' = _total_sent

\* lines 261-263: except Exception: self._errors += 1
OnPublishError ==
    /\ _errors' = _errors + 1
    /\ _total_sent' = _total_sent

\* lines 265-268: the residual of the tick; asyncio.sleep only if it is not 0
Pace ==
    \E elapsed \in ElapsedMs :
        /\ sleep_time' = Max(0, INTERVAL_MS - elapsed)
        /\ gen_pc' = IF Max(0, INTERVAL_MS - elapsed) # 0 THEN "sleep" ELSE "loop"

\* _publish_batch returns result or raises exc; in run() the tick goes on
\* with the counter update and the pacing
PublishEnds(raised, result) ==
    /\ pub_exc' = raised
    /\ pub_result' = result
    /\ IF pub_caller = "direct"
       THEN /\ gen_pc' = "publish_done"
            /\ UNCHANGED <<_total_sent, _errors, sleep_time>>
       ELSE /\ IF raised = "" THEN OnPublished(result) ELSE OnPublishError
            /\ Pace

AtAdd == gen_pc = "adding" /\ pub_next <= pub_events

\* line 216: create_batch() returns an empty batch
CreateBatchOk ==
    /\ gen_pc = "create_batch"
    /\ batch' = <<>>
    /\ added' = 0
    /\ gen_pc' = "adding"
    /\ UNCHANGED <<cfg_vars, _running, _total_sent, _errors, run_exc, tick_batch_size,
                   sleep_time, ticks, stop_at, wire_total, pub_caller, pub_events,
                   pub_next, sent_batches, pub_exc, pub_result, gb_vars, not_gen_vars>>

\* line 216: create_batch() raises
CreateBatchFails ==
    /\ gen_pc = "create_batch"
    /\ PublishEnds("EventHubError", -1)
    /\ UNCHANGED <<cfg_vars, _running, run_exc, tick_batch_size, ticks, stop_at,
                   wire_total, pub_caller, pub_events, pub_next, batch, added,
                   sent_batches, gb_vars, not_gen_vars>>

\* lines 220-221: batch.add accepts the event
AddOk ==
    /\ AtAdd
    /\ batch' = Append(batch, pub_next)
    /\ added' = added + 1
    /\ pub_next' = pub_next + 1
    /\ UNCHANGED <<cfg_vars, _running, _total_sent, _errors, gen_pc, run_exc,
                   tick_batch_size, sleep_time, ticks, stop_at, wire_total,
                   pub_caller, pub_events, sent_batches, pub_exc, pub_result,
                   gb_vars, not_gen_vars>>

\* lines 222-224: batch.add raises ValueError; the current batch is flushed
AddRejected ==
    /\ AtAdd
    /\ gen_pc' = "send_flush"
    /\ UNCHANGED <<cfg_vars, _running, _total_sent, _errors, run_exc, tick_batch_size,
                   sleep_time, ticks, stop_at, wire_total, pub_vars, gb_vars, not_gen_vars>>

\* line 224: send_batch(batch) completes; create_batch() is awaited
SendFlushOk ==
    /\ gen_pc = "send_flush"
    /\ sent_batches' = Append(sent_batches, batch)
    /\ wire_total' = wire_total + Len(batch)
    /\ gen_pc' = "create_batch2"
    /\ UNCHANGED <<cfg_vars, _running, _total_sent, _errors, run_exc, tick_batch_size,
                   sleep_time, ticks, stop_at, pub_caller, pub_events, pub_next,
                   batch, added, pub_exc, pub_result, gb_vars, not_gen_vars>>

\* line 224: send_batch(batch) raises
SendFlushFails ==
    /\ gen_pc = "send_flush"
    /\ PublishEnds("EventHubError", -1)
    /\ UNCHANGED <<cfg_vars, _running, run_exc, tick_batch_size, ticks, stop_at,
                   wire_total, pub_caller, pub_events, pub_next, batch, added,
                   sent_batches, gb_vars, not_gen_vars>>

\* lines 225-227: the new batch accepts the rejected event
RecreateAddOk ==
    /\ gen_pc = "create_batch2"
    /\ batch' = <<pub_next>>
    /\ added' = added + 1
    /\ pub_next' = pub_next + 1
    /\ gen_pc' = "adding"
    /\ UNCHANGED <<cfg_vars, _running, _total_sent, _errors, run_exc, tick_batch_size,
                   sleep_time, ticks, stop_at, wire_total, pub_caller, pub_events,
                   sent_batches, pub_exc, pub_result, gb_vars, not_gen_vars>>

\* line 226: the new, empty batch rejects the event too; the ValueError is
\* raised inside the except clause and leaves _publish_batch
RecreateAddRejected ==
    /\ gen_pc = "create_batch2"
    /\ batch' = <<>>
    /\ PublishEnds("ValueError", -1)
    /\ UNCHANGED <<cfg_vars, _running, run_exc, tick_batch_size, ticks, stop_at,
                   wire_total, pub_caller, pub_events, pub_next, added, sent_batches,
                   gb_vars, not_gen_vars>>

\* line 225: create_batch() raises
RecreateFails ==
    /\ gen_pc = "create_batch2"
    /\ PublishEnds("EventHubError", -1)
    /\ UNCHANGED <<cfg_vars, _running, run_exc, tick_batch_size, ticks, stop_at,
                   wire_total, pub_caller, pub_events, pub_next, batch, added,
                   sent_batches, gb_vars, not_gen_vars>>

\* lines 228-229: the for loop is over and added is not 0
ReachFinalSend ==
    /\ gen_pc = "adding"
    /\ pub_next > pub_events
    /\ added # 0
    /\ gen_pc' = "send_final"
    /\ UNCHANGED <<cfg_vars, _running, _total_sent, _errors, run_exc, tick_batch_size,
                   sleep_time, ticks, stop_at, wire_total, pub_vars, gb_vars, not_gen_vars>>

\* lines 228, 230: the for loop is over and added is 0
NothingAdded ==
    /\ gen_pc = "adding"
    /\ pub_next > pub_events
    /\ added = 0
    /\ PublishEnds("", added)
    /\ UNCHANGED <<cfg_vars, _running, run_exc, tick_batch_size, ticks, stop_at,
                   wire_total, pub_caller, pub_events, pub_next, batch, added,
                   sent_batches, gb_vars, not_gen_vars>>

\* lines 229-230: the final send_batch(batch) completes
FinalSendOk ==
    /\ gen_pc = "send_final"
    /\ sent_batches' = Append(sent_batches, batch)
    /\ wire_total' = wire_total + Len(batch)
    /\ PublishEnds("", added)
    /\ UNCHANGED <<cfg_vars, _running, run_exc, tick_batch_size, ticks, stop_at,
                   pub_caller, pub_events, pub_next, batch, added, gb_vars, not_gen_vars>>

\* line 229: the final send_batch(batch) raises
FinalSendFails ==
    /\ gen_pc = "send_final"
    /\ PublishEnds("EventHubError", -1)
    /\ UNCHANGED <<cfg_vars, _running, run_exc, tick_batch_size, ticks, stop_at,
                   wire_total, pub_caller, pub_events, pub_next, batch, added,
                   sent_batches, gb_vars, not_gen_vars>>

\* line 268: asyncio.sleep(sleep_time) is over
SleepDone ==
    /\ gen_pc = "sleep"
    /\ gen_pc' = "loop"
    /\ UNCHANGED <<cfg_vars, _running, _total_sent, _errors, run_exc, tick_batch_size,
                   sleep_time, ticks, stop_at, wire_total, pub_vars, gb_vars, not_gen_vars>>

\* _dry_run_loop, lines 282-292: one pass up to asyncio.sleep(interval)
DryTick ==
    /\ gen_pc = "dry_loop"
    /\ _running
    /\ ticks < MaxTicks
    /\ ticks' = ticks + 1
    /\ _total_sent' = _total_sent + tick_batch_size
    /\ sleep_time' = INTERVAL_MS
    /\ gen_pc' = "dry_sleep"
    /\ UNCHANGED <<cfg_vars, _running, _errors, run_exc, tick_batch_size, stop_at,
                   wire_total, pub_vars, gb_vars, not_gen_vars>>

\* lines 282-292 past the bound of the model: the dry-run loop goes on
DryTickBeyondBound ==
    /\ gen_pc = "dry_loop"
    /\ _running
    /\ ticks = MaxTicks
    /\ gen_pc' = "dry_sleep"
    /\ UNCHANGED <<cfg_vars, _running, _total_sent, _errors, run_exc, tick_batch_size,
                   sleep_time, ticks, stop_at, wire_total, pub_vars, gb_vars, not_gen_vars>>

\* line 292: asyncio.sleep(interval) is over
DrySleepDone ==
    /\ gen_pc = "dry_sleep"
    /\ gen_pc' = "dry_loop"
    /\ UNCHANGED <<cfg_vars, _running, _total_sent, _errors, run_exc, tick_batch_size,
                   sleep_time, ticks, stop_at, wire_total, pub_vars, gb_vars, not_gen_vars>>

\* lines 282, 240-241: the loop condition fails; run() returns
DryExit ==
    /\ gen_pc = "dry_loop"
    /\ ~_running
    /\ gen_pc' = "returned"
    /\ UNCHANGED <<cfg_vars, _running, _total_sent, _errors, run_exc, tick_batch_size,
                   sleep_time, ticks, stop_at, wire_total, pub_vars, gb_vars, not_gen_vars>>

InitGen ==
    /\ env_cosmos = FALSE
    /\ env_dlq = FALSE
    /\ ProcIdle
    /\ FnIdle
    /\ gen_pc = "new"
    /\ ctor_args \in CtorArgs
    /\ pool_draws \in [1..ctor_args.num_users -> {FirstDraw}]
    /\ GenFields
    /\ ArchIdle

\* the steps of _publish_batch
PublishSteps ==
    \/ CreateBatchOk
    \/ CreateBatchFails
    \/ AddOk
    \/ AddRejected
    \/ SendFlushOk
    \/ SendFlushFails
    \/ RecreateAddOk
    \/ RecreateAddRejected
    \/ RecreateFails
    \/ ReachFinalSend
    \/ NothingAdded
    \/ FinalSendOk
    \/ FinalSendFails

\* the steps of the run() task
RunTask ==
    \/ RunStart
    \/ TickStart
    \/ TickBeyondBound
    \/ LoopExit
    \/ CloseDone
    \/ SleepDone
    \/ DryTick
    \/ DryTickBeyondBound
    \/ DrySleepDone
    \/ DryExit
    \/ PublishSteps

NextGen ==
    \/ Construct
    \/ Stop
    \/ \E n \in 0..MaxEvents : PublishCall(n)
    \/ RunTask

SpecGen == InitGen /\ [][NextGen]_vars

\* the event loop runs the task whenever it can take a step: every awaited
\* call completes or raises
SpecGenLive == InitGen /\ [][NextGen]_vars /\ WF_vars(RunTask)

(***************************************************************************)
(* generate_batch(size) on a constructed generator: one _generate_event    *)
(* call per element of range(size).  The random draws of a call are its    *)
(* input; uuid4 and the clock are symbolic.  The floats drawn are whole    *)
(* numbers, which round(x, 1) and round(x, 2) leave as they are.           *)
(***************************************************************************)
GenPoolSizes == {0, 1, 2}
BatchSizes == {0, 1, 2}

\* random.uniform(a, b): the model draws the two ends of the interval
Ends == {"low", "high"}
uniform(a, b, end) == IF end = "low" THEN a ELSE b

\* "HDR" in name, for the resolution names of QUALITY_MAP
ContainsHDR(name) == name = "4K_HDR"

\* the draws of one _generate_event call: indexes into self.users, the
\* catalog, the event kinds and QUALITY_MAP[tier], and the uniform draws;
\* a draw the code does not make is "low"
EventDraws(pool) ==
    {r \in [user : 1..Len(pool), content : 1..Len(CONTENT_CATALOG),
            event_type : 1..Len(EVENT_WEIGHTS), quality : 1..3,
            pos : Ends, dur : Ends, buf : Ends] :
        /\ r.quality <= Len(QUALITY_MAP[pool[r.user].subscription_tier])
        /\ EVENT_WEIGHTS[r.event_type] \notin {"video_stop", "video_complete"}
              => r.dur = "low"
        /\ EVENT_WEIGHTS[r.event_type] # "buffer_event" => r.buf = "low"}

\* mutant: every event carries a buffer duration
BufferMs_Always(event_type, end) == Float(uniform(500, 15000, end))

\* lines 174-176: buffer_ms
BufferMs(event_type, end) ==
    IF event_type = "buffer_event" THEN Float(uniform(500, 15000, end)) ELSE Null

\* mutant: the device type is drawn afresh for every event
EventDeviceType_Redrawn(user, r) == DEVICE_WEIGHTS[r.content]

\* line 188: device_type=user["device_type"]
EventDeviceType(user, r) == user.device_type

\* the StreamingEvent built from the draws r; error_code keeps its default
_generate_event(pool, r) ==
    LET user == pool[r.user]
        content == CONTENT_CATALOG[r.content]
        event_type == EVENT_WEIGHTS[r.event_type]
        tier == user.subscription_tier
        quality == QUALITY_MAP[tier][r.quality]
        playback_pos == uniform(0, content.duration, r.pos)
        duration == IF event_type \in {"video_stop", "video_complete"}
                    THEN uniform(0, content.duration, r.dur) ELSE 0
    IN  [event_id |-> Str(Uuid4),
         event_type |-> Str(event_type),
         user_id |-> Str(user.user_id),
         session_id |-> Str(Uuid4),
         content_id |-> Str(content.id),
         content_title |-> Str(content.title),
         content_type |-> Str(content.type),
         timestamp |-> Str(UtcNowIso),
         duration_seconds |-> Float(duration),
         playback_position_seconds |-> Float(playback_pos),
         device_type |-> Str(EventDeviceType(user, r)),
         device_id |-> Str(user.device_id),
         location |-> user.location,
         quality_settings |->
            Obj([resolution |-> Str(quality[1]),
                 bitrate_kbps |-> IntNum(quality[2]),
                 audio_codec |-> Str("AAC"),
                 video_codec |-> Str("H.265"),
                 hdr_enabled |-> Bool(ContainsHDR(quality[1]))]),
         buffer_duration_ms |-> BufferMs(event_type, r.buf),
         error_code |-> Null,
         profile_id |-> Str(user.profile_id),
         subscription_tier |-> Str(tier)]

\* the events one _generate_event call can return
GeneratedFrom(pool) == {_generate_event(pool, r) : r \in EventDraws(pool)}

\* the pools __init__ can build, and for each of them the events of a call
Pools ==
    UNION {{_build_user_pool(n, d) : d \in PoolDraws(n)} : n \in GenPoolSizes}
GeneratedOf == [pool \in Pools |-> GeneratedFrom(pool)]

\* the attributes an event shares with its user
StickyFields ==
    {"user_id", "device_type", "device_id", "location", "profile_id", "subscription_tier"}
StickyOf(ev) == [f \in StickyFields |-> ev[f]]

\* generator.generate_batch(n) is called
GenBatchCall(n) ==
    /\ gen_pc = "constructed"
    /\ gb_size' = n
    /\ gb_list' = <<>>
    /\ gb_returned' = FALSE
    /\ gb_exc' = ""
    /\ gen_pc' = "generating"
    /\ UNCHANGED <<cfg_vars, _running, _total_sent, _errors, run_exc, tick_batch_size,
                   sleep_time, ticks, stop_at, wire_total, pub_vars, emitted,
                   not_gen_vars>>

\* one element of the comprehension: self._generate_event()
GenEvent ==
    /\ gen_pc = "generating"
    /\ Len(gb_list) < gb_size
    /\ users # <<>>
    /\ \E ev \in (IF users \in Pools THEN GeneratedOf[users] ELSE GeneratedFrom(users)) :
          /\ gb_list' = Append(gb_list, ev)
          /\ emitted' = emitted \cup {StickyOf(ev)}
    /\ UNCHANGED <<cfg_vars, _running, _total_sent, _errors, gen_pc, run_exc,
                   tick_batch_size, sleep_time, ticks, stop_at, wire_total, pub_vars,
                   gb_size, gb_returned, gb_exc, not_gen_vars>>

\* random.choice(self.users) on an empty pool raises IndexError
GenEventFails ==
    /\ gen_pc = "generating"
    /\ Len(gb_list) < gb_size
    /\ users = <<>>
    /\ gb_exc' = "IndexError"
    /\ gen_pc' = "constructed"
    /\ UNCHANGED <<cfg_vars, _running, _total_sent, _errors, run_exc, tick_batch_size,
                   sleep_time, ticks, stop_at, wire_total, pub_vars, gb_size, gb_list,
                   gb_returned, emitted, not_gen_vars>>

\* range(size) is exhausted: the list is returned
GenBatchReturn ==
    /\ gen_pc = "generating"
    /\ Len(gb_list) >= gb_size
    /\ gb_returned' = TRUE
    /\ gen_pc' = "constructed"
    /\ UNCHANGED <<cfg_vars, _running, _total_sent, _errors, run_exc, tick_batch_size,
                   sleep_time, ticks, stop_at, wire_total, pub_vars, gb_size, gb_list,
                   gb_exc, emitted, not_gen_vars>>

InitEvents ==
    /\ env_cosmos = FALSE
    /\ env_dlq = FALSE
    /\ ProcIdle
    /\ FnIdle
    /\ gen_pc = "new"
    /\ ctor_args \in [connection_string : {""}, env : {""}, events_per_second : {10},
                       num_users : GenPoolSizes, dry_run : {TRUE}]
    /\ pool_draws \in PoolDraws(ctor_args.num_users)
    /\ GenFields
    /\ ArchIdle

NextEvents ==
    \/ Construct
    \/ \E n \in BatchSizes : GenBatchCall(n)
    \/ GenEvent
    \/ GenEventFails
    \/ GenBatchReturn

SpecEvents == InitEvents /\ [][NextEvents]_vars

(***************************************************************************)
(* archive_raw.main(events): every event of the batch becomes one line of  *)
(* a newline-delimited JSON blob, uploaded under a path derived from the   *)
(* clock.  One action starts the invocation, one action per path of the    *)
(* loop body handles the next event, one action per outcome does the       *)
(* upload.  A line is modelled by the dict json.dumps serialises.          *)
(***************************************************************************)
\* an EventHubEvent: body and the metadata main reads
Event(body, partition_key, sequence_number, enqueued_time) ==
    [body |-> body, partition_key |-> partition_key,
     sequence_number |-> sequence_number, enqueued_time |-> enqueued_time]

\* well-formed JSON that is a string, and one that is a number
ItemJsonString == Body(TRUE, Ascii(6), TRUE, Str("text"))
ItemJsonNumber == Body(TRUE, Ascii(2), TRUE, Num("42"))

ArchEvents ==
    {Event(ItemValidE1, Str("U0000001"), Num("7"), Str("2025-01-15T14:30:01+00:00")),
     Event(ItemValidE2, Null, Num("8"), Null),
     Event(ItemRejected, Null, Num("9"), Str("2025-01-15T14:30:02+00:00")),
     Event(ItemJsonArray, Null, Num("10"), Null),
     Event(ItemJsonString, Null, Num("11"), Null),
     Event(ItemJsonNumber, Null, Num("12"), Null),
     Event(ItemMalformed, Null, Num("13"), Null),
     Event(ItemBadUtf8, Null, Num("14"), Null)}

\* readings of datetime.now(timezone.utc): isoformat() and the strftime
\* fields _build_blob_path uses
Clock ==
    {[iso |-> "2025-01-15T14:30:00.000001+00:00", date |-> "2025-01-15", hh |-> "14",
      stamp |-> "20250115_143000_000001"],
     [iso |-> "2025-01-15T14:30:00.000002+00:00", date |-> "2025-01-15", hh |-> "14",
      stamp |-> "20250115_143000_000002"]}

_build_blob_path(timestamp) ==
    "netflix-events/" \o timestamp.date \o "/" \o timestamp.hh \o "/"
        \o timestamp.stamp \o ".json"

ARCHIVE_MAX_CHARS == 8192

\* a str value given by its characters
RawStr(chars) == [t |-> "str", v |-> "<raw>", d |-> NoDict, chars |-> chars]

\* lines 60-67: the parsed value with the archival metadata assigned to it;
\* item assignment with a str key raises TypeError on anything but a dict
TagParsed(parsed, event, clock) ==
    IF parsed.t # "object"
    THEN [exc |-> "TypeError", line |-> NoDict]
    ELSE [exc |-> "",
          line |-> Put(Put(Put(Put(parsed.d,
                       "_archived_at", Str(clock.iso)),
                       "_partition_key", event.partition_key),
                       "_sequence_number", event.sequence_number),
                       "_enqueued_time", event.enqueued_time)]

\* lines 70-74: the line kept for a payload json.loads rejects
RawLine(raw, clock) ==
    [_raw |-> RawStr(Slice(raw.chars, ARCHIVE_MAX_CHARS)),
     _archived_at |-> Str(clock.iso),
     _parse_error |-> [t |-> "bool", v |-> "True", d |-> NoDict]]

\* lines 56-74: the loop body for one event
ArchiveLine(event, clock) ==
    LET dec == decode_utf8(event.body)
        js == json_loads(dec.str)
    IN  IF Raised(dec) THEN [exc |-> dec.exc, line |-> NoDict]
        ELSE IF Raised(js) THEN [exc |-> "", line |-> RawLine(dec.str, clock)]
        ELSE TagParsed(js.data, event, clock)

\* ArchiveLine over the events and clock readings of the model
ArchiveLineOf == [event \in ArchEvents, clock \in Clock |-> ArchiveLine(event, clock)]

\* _get_blob_service(): os.environ["DATALAKE_CONNECTION_STRING"] raises
\* KeyError when the variable is not set
_get_blob_service ==
    IF _blob_service_client # "None" THEN [exc |-> "", client |-> _blob_service_client]
    ELSE IF env_datalake THEN [exc |-> "", client |-> "client"]
    ELSE [exc |-> "KeyError", client |-> "None"]

UploadErrors == {"ResourceNotFoundError", "ServiceRequestError"}

\* main is called with a batch of n events: lines 48-54
ArchInvoke(n, clock) ==
    /\ arch_pc \in {"idle", "returned", "raised"}
    /\ arch_runs < MaxInvocations
    /\ arch_runs' = arch_runs + 1
    /\ arch_n' = n
    /\ now' = clock
    /\ blob_path' = _build_blob_path(clock)
    /\ arch_events' = <<>>
    /\ lines' = <<>>
    /\ payload' = <<>>
    /\ arch_exc' = ""
    /\ arch_pc' = "running"
    /\ UNCHANGED <<env_datalake, _blob_service_client, blobs, archived_log, proc_vars,
                   fn_vars, gen_vars>>

ArchLooping == arch_pc = "running" /\ Len(arch_events) < arch_n

\* lines 55-74: the loop body appends the line of the next event
ArchLineKept ==
    \E event \in ArchEvents :
        /\ ArchLooping
        /\ ~Raised(ArchiveLineOf[event, now])
        /\ arch_events' = Append(arch_events, event)
        /\ lines' = Append(lines, ArchiveLineOf[event, now].line)
        /\ UNCHANGED <<env_datalake, _blob_service_client, arch_pc, arch_exc, arch_n, now,
                       blob_path, payload, blobs, arch_runs, archived_log, proc_vars, fn_vars, gen_vars>>

\* lines 56, 61: decode or the item assignment raises; nothing in main
\* catches it
ArchLineRaises ==
    \E event \in ArchEvents :
        /\ ArchLooping
        /\ Raised(ArchiveLineOf[event, now])
        /\ arch_events' = Append(arch_events, event)
        /\ arch_exc' = ArchiveLineOf[event, now].exc
        /\ arch_pc' = "raised"
        /\ UNCHANGED <<env_datalake, _blob_service_client, arch_n, now, blob_path, lines,
                       payload, blobs, arch_runs, archived_log, proc_vars, fn_vars, gen_vars>>

ArchAtUpload == arch_pc = "running" /\ Len(arch_events) = arch_n

\* lines 76-90: the payload is uploaded, replacing any blob at the path
ArchUploaded ==
    /\ ArchAtUpload
    /\ ~Raised(_get_blob_service)
    /\ _blob_service_client' = _get_blob_service.client
    /\ payload' = lines
    /\ blobs' = (blob_path :> [run |-> arch_runs, nlines |-> Len(lines)]) @@ blobs
    /\ archived_log' = Append(archived_log, [run |-> arch_runs, path |-> blob_path,
                                              events |-> arch_n])
    /\ arch_pc' = "returned"
    /\ UNCHANGED <<env_datalake, arch_exc, arch_n, arch_events, now, blob_path, lines,
                   arch_runs, proc_vars, fn_vars, gen_vars>>

\* lines 79, 91-93: the connection string is not configured
ArchNoService ==
    /\ ArchAtUpload
    /\ Raised(_get_blob_service)
    /\ payload' = lines
    /\ arch_exc' = _get_blob_service.exc
    /\ arch_pc' = "raised"
    /\ UNCHANGED <<env_datalake, _blob_service_client, arch_n, arch_events, now, blob_path,
                   lines, blobs, arch_runs, archived_log, proc_vars, fn_vars, gen_vars>>

\* mutant: the handler logs the failure and returns
ArchUploadFails_Swallowed ==
    \E err \in UploadErrors :
        /\ ArchAtUpload
        /\ ~Raised(_get_blob_service)
        /\ _blob_service_client' = _get_blob_service.client
        /\ payload' = lines
        /\ arch_pc' = "returned"
        /\ UNCHANGED <<env_datalake, arch_exc, arch_n, arch_events, now, blob_path, lines,
                       blobs, arch_runs, archived_log, proc_vars, fn_vars, gen_vars>>

\* lines 80-88, 91-93: a storage call raises and main re-raises
ArchUploadFails ==
    \E err \in UploadErrors :
        /\ ArchAtUpload
        /\ ~Raised(_get_blob_service)
        /\ _blob_service_client' = _get_blob_service.client
        /\ payload' = lines
        /\ arch_exc' = err
        /\ arch_pc' = "raised"
        /\ UNCHANGED <<env_datalake, arch_n, arch_events, now, blob_path, lines, blobs,
                       arch_runs, archived_log, proc_vars, fn_vars, gen_vars>>

InitArchive ==
    /\ env_cosmos = FALSE
    /\ env_dlq = FALSE
    /\ ProcIdle
    /\ FnIdle
    /\ GenIdle
    /\ env_datalake \in BOOLEAN
    /\ ArchFields
    /\ arch_pc = "idle"

NextArchive ==
    \/ \E n \in 0..MaxBatch, clock \in Clock : ArchInvoke(n, clock)
    \/ ArchLineKept
    \/ ArchLineRaises
    \/ ArchUploaded
    \/ ArchNoService
    \/ ArchUploadFails

SpecArchive == InitArchive /\ [][NextArchive]_vars

(***************************************************************************)
(* Properties of the batch processor (checked under Spec).                 *)
(***************************************************************************)
\* the exceptions of a fatal configuration error: the store handle cannot
\* be built
ConfigurationErrors == {"KeyError"}

\* the items main has finished with: all reached items, but the one it
\* raised on
Completed == IF pc = "raised" /\ events # <<>> THEN Len(events) - 1 ELSE Len(events)

\* the item does not decode to a payload the validator accepts
FailsDecodeOrValidation(body) ==
    PipelineOf[body].stage \in {"decode", "json.loads", "_validate_event"}

FailsDecode(body) == PipelineOf[body].stage \in {"decode", "json.loads"}

CallsFor(k) == {j \in DOMAIN dlq_calls : dlq_calls[j].item = k}
UpsertsFor(k) == {j \in DOMAIN upserts : upserts[j].item = k}
FailedUpserts == {j \in DOMAIN upserts : ~upserts[j].ok}
OkUpserts == {j \in DOMAIN upserts : upserts[j].ok}

\* C1: per-item isolation: whatever happens to one item, every later item
\* of the batch is still processed and main returns normally; nothing but a
\* fatal configuration error propagates out of main.
C1_PerItemIsolation ==
    /\ pc = "raised" => exc \in ConfigurationErrors /\ events = <<>>
    /\ pc = "returned" => Len(events) = batch_size

\* C2: batch accounting: after any prefix of i items success_count is the
\* number of successful upserts and error_count the number of items that
\* failed decode, validation or the store write, so their sum is i; and a
\* batch of N items of which K fail decode/validation, every store write
\* succeeding, ends with error_count = K and success_count = N - K.
C2_BatchAccounting ==
    /\ success_count = Cardinality(OkUpserts)
    /\ success_count + error_count = Completed
    /\ (/\ pc \in {"returned", "raised"}
        /\ exc \notin ConfigurationErrors
        /\ Len(events) = batch_size
        /\ FailedUpserts = {})
       => LET K == Cardinality({k \in DOMAIN events : FailsDecodeOrValidation(events[k])})
          IN  error_count = K /\ success_count = batch_size - K

\* the accounting that holds of the code: the counters of the items main
\* has finished with
PrefixAccounting ==
    /\ success_count = Cardinality(OkUpserts)
    /\ error_count = Len(dlq_calls) + Cardinality(FailedUpserts)
    /\ success_count + error_count = Completed

\* C3: when an item decodes and validates but upsert_item raises, main adds
\* exactly one to error_count, nothing to success_count, does not call
\* _send_to_dlq for the item, and goes on with the next item.
C3_PersistFailureContained ==
    [][(Len(upserts') = Len(upserts) + 1 /\ ~upserts'[Len(upserts')].ok)
       => /\ error_count' = error_count + 1
          /\ success_count' = success_count
          /\ dlq_calls' = dlq_calls
          /\ dlq_sent' = dlq_sent
          /\ store' = store
          /\ exc' = ""
          /\ pc' = IF Len(events') < batch_size THEN "running" ELSE "returned"]_vars

\* a store write failed and the loop went on to handle a later item
C3_Witness ==
    \E j \in FailedUpserts :
        /\ upserts[j].item < Len(events)
        /\ item_log[upserts[j].item].outcome = "persist_failed"
        /\ CallsFor(upserts[j].item) = {}
        /\ error_count >= 1

\* C4: each item that fails decode or validation gets exactly one
\* _send_to_dlq call, with its raw payload and with ["invalid JSON"] for a
\* decode failure, the validator's list otherwise; nothing runs after a
\* decode failure but the dead-letter send, and neither enricher nor store
\* after a validation failure.
C4_DeadLetterRouting ==
    \A k \in DOMAIN events :
        FailsDecodeOrValidation(events[k]) =>
            /\ Cardinality(CallsFor(k)) = 1
            /\ \A j \in CallsFor(k) :
                /\ dlq_calls[j].raw_body = events[k].text
                /\ dlq_calls[j].errors =
                      IF FailsDecode(events[k]) THEN <<"invalid JSON">>
                      ELSE _validate_event(events[k].text.data).errors
            /\ UpsertsFor(k) = {}
            /\ \A c \in DOMAIN item_log[k].calls :
                /\ item_log[k].calls[c] \notin {"_enrich_event", "upsert_item"}
                /\ FailsDecode(events[k]) => item_log[k].calls[c] # "_validate_event"

C7_IdempotentPersistence ==
    /\ \A j \in DOMAIN upserts : upserts[j].body["id"] = upserts[j].body["event_id"]
    /\ \A key \in DOMAIN store : store[key]["id"].v = key
    /\ \A j \in OkUpserts :
        LET e == upserts[j].body["event_id"]
        IN  /\ Cardinality({key \in DOMAIN store : store[key]["event_id"] = e}) = 1
            /\ (\A l \in OkUpserts : l > j => upserts[l].body["event_id"] # e)
                  => store[e.v] = upserts[j].body
    /\ success_count = Cardinality(OkUpserts)

\* one batch wrote the same event_id twice with different content, and the
\* store holds the second write only
C7_Witness ==
    \E j, l \in OkUpserts :
        /\ j < l
        /\ upserts[j].body["event_id"] = upserts[l].body["event_id"]
        /\ upserts[j].body # upserts[l].body
        /\ store[upserts[l].body["id"].v] = upserts[l].body
        /\ success_count >= 2

\* the fields the event model requires (StreamingEvent.validate)
ModelRequiredFields ==
    {"event_id", "event_type", "user_id", "content_id", "timestamp", "device_type"}

ModelValid(doc) ==
    /\ \A f \in ModelRequiredFields : f \in DOMAIN doc /\ doc[f].t = "str" /\ doc[f].v # ""
    /\ doc["event_type"].v \in VALID_EVENT_TYPES
    /\ doc["device_type"].v \in VALID_DEVICE_TYPES

\* C9: every event the batch processor upserts has all six required fields
\* of the event model non-empty, event_type and device_type in their
\* enumerations; an event lacking any of them is dead-lettered instead.
C9_PersistedEventsModelValid ==
    /\ \A j \in DOMAIN upserts : ModelValid(upserts[j].body)
    /\ \A key \in DOMAIN store : ModelValid(store[key])

(***************************************************************************)
(* Properties of the pure functions (checked under SpecFn).                *)
(***************************************************************************)
\* a is a prefix of b, both run-length lists with adjacent runs of
\* different width
RECURSIVE IsPrefix(_, _)
IsPrefix(a, b) ==
    \/ a = <<>>
    \/ /\ b # <<>>
       /\ Head(a).w = Head(b).w
       /\ \/ Head(a).n = Head(b).n /\ IsPrefix(Tail(a), Tail(b))
          \/ Head(a).n < Head(b).n /\ Tail(a) = <<>>

\* C6 as stated: the envelope's original_event is a prefix of the raw
\* payload of at most 8192 bytes, and a payload no longer than that is
\* embedded unchanged.
C6_TruncationInBytes ==
    fn_pc = "enveloped" =>
        /\ IsPrefix(fn_envelope.original_event, fn_raw.chars)
        /\ ByteLen(fn_envelope.original_event) <= DLQ_MAX_CHARS
        /\ ByteLen(fn_raw.chars) <= DLQ_MAX_CHARS => fn_envelope.original_event = fn_raw.chars

\* C6 amended: the envelope's original_event is the prefix of the raw
\* payload of at most 8192 characters (so at most 4 * 8192 bytes of UTF-8),
\* and a payload of at most 8192 characters is embedded unchanged.
C6_TruncationInChars ==
    fn_pc = "enveloped" =>
        /\ IsPrefix(fn_envelope.original_event, fn_raw.chars)
        /\ CharLen(fn_envelope.original_event) <= DLQ_MAX_CHARS
        /\ ByteLen(fn_envelope.original_event) <= 4 * DLQ_MAX_CHARS
        /\ CharLen(fn_envelope.original_event) < DLQ_MAX_CHARS
              => fn_envelope.original_event = fn_raw.chars
        /\ CharLen(fn_raw.chars) <= DLQ_MAX_CHARS => fn_envelope.original_event = fn_raw.chars

\* a payload of more than 8192 multi-byte characters was cut to 8192
\* characters, which are more than 8192 bytes
C6_Witness ==
    /\ fn_pc = "enveloped"
    /\ CharLen(fn_raw.chars) > DLQ_MAX_CHARS
    /\ CharLen(fn_envelope.original_event) = DLQ_MAX_CHARS
    /\ ByteLen(fn_envelope.original_event) > DLQ_MAX_CHARS

\* "absent or empty", "present and non-empty" as the validator's contract
\* words them
AbsentOrEmpty(dict, f) == f \notin DOMAIN dict \/ dict[f] \in {Str(""), Null}

RECURSIVE ExpectedMissing(_, _)
ExpectedMissing(dict, fields) ==
    IF fields = <<>> THEN <<>>
    ELSE (IF AbsentOrEmpty(dict, Head(fields))
          THEN <<"missing required field: " \o Head(fields)>> ELSE <<>>)
         \o ExpectedMissing(dict, Tail(fields))

ExpectedInvalid(dict, f, allowed) ==
    IF ~AbsentOrEmpty(dict, f) /\ ~(dict[f].t = "str" /\ dict[f].v \in allowed)
    THEN <<"invalid " \o f \o ": " \o dict[f].v>> ELSE <<>>

ExpectedViolations(dict) ==
    ExpectedMissing(dict, <<"event_id", "event_type", "user_id", "content_id", "timestamp">>)
        \o ExpectedInvalid(dict, "event_type", VALID_EVENT_TYPES)
        \o ExpectedInvalid(dict, "device_type", VALID_DEVICE_TYPES)

\* C8: for every decoded payload _validate_event returns exactly the
\* missing-field entries in the fixed order, then the invalid event_type
\* entry, then the invalid device_type entry.
C8_ValidatorList ==
    fn_pc = "validated" /\ fn_event.t = "object" =>
        /\ fn_valid.exc = ""
        /\ fn_valid.errors = ExpectedViolations(fn_event.d)

\* the validator returns the empty list for x
Accepts(x) == ~Raised(_validate_event(x)) /\ _validate_event(x).errors = <<>>

DerivedKeys == {"id", "processed_at", "processing_version", "hour_bucket"}

Parses(stamp) == stamp.t = "str" /\ ~Raised(fromisoformat(replace_Z(stamp.v)))

\* C11: enrichment never fails: for every accepted payload, whatever its
\* timestamp is (well-formed, malformed, or not a string), _enrich_event
\* returns without raising, with id, processed_at and processing_version
\* set, and with hour_bucket null when the timestamp does not parse.
C11_EnrichNeverFails ==
    fn_pc = "enriched" /\ Accepts(fn_event) =>
        /\ ~Raised(fn_enriched)
        /\ DerivedKeys \subseteq DOMAIN fn_enriched.event
        /\ fn_enriched.event["id"] = fn_event.d["event_id"]
        /\ fn_enriched.event["processed_at"] = Str(UtcNowIso)
        /\ fn_enriched.event["processing_version"] = Str(PROCESSING_VERSION)
        /\ ~Parses(fn_event.d["timestamp"]) => fn_enriched.event["hour_bucket"] = Null

\* ISO-8601 read as an instant: the minutes of the day in UTC that a
\* rendered timestamp denotes
Digits == <<"0", "1", "2", "3", "4", "5", "6", "7", "8", "9">>
TwoDigit(n) == Digits[(n \div 10) + 1] \o Digits[(n % 10) + 1]
HourOf(hh) == CHOOSE n \in 0..23 : TwoDigit(n) = hh
MinuteOf(mm) == CHOOSE n \in 0..59 : TwoDigit(n) = mm
OffsetMinutes(tz) == IF tz = "+05:30" THEN 330 ELSE 0
UtcMinutes(ts) == HourOf(ts.hh) * 60 + MinuteOf(ts.mm) - OffsetMinutes(ts.tz)

\* the instant floored to the hour, in UTC, as YYYY-MM-DDTHH:00:00Z
UtcHourBucket(ts) == ts.date \o "T" \o TwoDigit(UtcMinutes(ts) \div 60) \o ":00:00Z"

\* the timestamp the text denotes, when it is written with a Z or an offset
Denoted(stamp) == fromisoformat(replace_Z(stamp.v)).ts

\* C12: for every timestamp that parses and is written with a trailing Z or
\* a numeric offset, hour_bucket is the instant floored to the hour in UTC,
\* and timestamps denoting the same instant get the same hour_bucket.
C12_HourBucketInUtc ==
    (/\ fn_pc = "enriched"
     /\ Accepts(fn_event)
     /\ Parses(fn_event.d["timestamp"])
     /\ Denoted(fn_event.d["timestamp"]).tz # "") =>
        /\ ~Raised(fn_enriched)
        /\ fn_enriched.event["hour_bucket"] =
              Str(UtcHourBucket(Denoted(fn_event.d["timestamp"])))
        /\ \A other \in IsoStamps :
              (/\ other.tz # ""
               /\ other.date = Denoted(fn_event.d["timestamp"]).date
               /\ UtcMinutes(other) = UtcMinutes(Denoted(fn_event.d["timestamp"])))
              => HourBucket(Str(isoformat(other))) = fn_enriched.event["hour_bucket"]

(***************************************************************************)
(* Properties of the generator (checked under SpecGen and SpecGenLive).    *)
(***************************************************************************)
\* the positions of run() inside _publish_batch
PublishPcs == {"create_batch", "adding", "send_flush", "create_batch2", "send_final"}

\* a call of _publish_batch has ended
PublishOver == pub_caller # "none" /\ gen_pc \notin PublishPcs

RECURSIVE Flat(_)
Flat(seqs) == IF seqs = <<>> THEN <<>> ELSE Head(seqs) \o Flat(Tail(seqs))

\* C13: for every list of events and every pattern of "batch full"
\* rejections (the transport calls themselves not failing), each event is
\* in exactly one batch that was sent, in input order, and the returned
\* count is len(events).
C13_FlushPolicy ==
    PublishOver /\ pub_exc # "EventHubError" =>
        /\ pub_exc = ""
        /\ Flat(sent_batches) = [i \in 1..pub_events |-> i]
        /\ pub_result = pub_events

\* run() has been called on the generator
RunCalled ==
    gen_pc \notin {"none", "new", "constructed", "publish_done"} /\ pub_caller # "direct"

RunExited == gen_pc \in {"returned", "raised"}

\* C14: whenever stop() has been called, at any point relative to run(),
\* the run loop eventually exits and run() returns.
C14_StopHonoured == (stop_called /\ RunCalled) ~> RunExited

\* the counters account for every tick the loop started
TicksAccounted == _total_sent = (ticks - _errors) * tick_batch_size

\* the last _publish_batch call of run() ran to its end: it raised, or it
\* sent every event and its last send was the final one
PublishCompleted ==
    pub_caller = "run" =>
        \/ pub_exc # ""
        \/ /\ pub_result = pub_events
           /\ Flat(sent_batches) = [i \in 1..pub_events |-> i]
           /\ sent_batches[Len(sent_batches)] = batch

\* C15: run() leaves its loop only from the loop condition, with the flag
\* cleared; a tick that has started its batch goes through _publish_batch
\* to its end and updates a counter before run() exits; stop() changes
\* nothing but the running flag.
C15_NoMidFlushAbort ==
    [][/\ (gen_pc' \in {"close", "returned"} /\ gen_pc \notin {"close", "returned"})
          => /\ gen_pc \in {"loop", "dry_loop"}
             /\ ~_running
             /\ TicksAccounted
             /\ PublishCompleted
       /\ (pub_caller = "run" /\ gen_pc \in PublishPcs)
          => /\ gen_pc' \in PublishPcs \cup {"sleep", "loop"}
             /\ gen_pc' \notin PublishPcs
                   => \/ pub_exc' = "" /\ _total_sent' = _total_sent + pub_events
                      \/ pub_exc' # "" /\ _errors' = _errors + 1
       /\ (stop_at' # stop_at \/ (_running /\ ~_running'))
          => UNCHANGED <<cfg_vars, _total_sent, _errors, gen_pc, run_exc, tick_batch_size,
                         sleep_time, ticks, wire_total, pub_vars>>]_vars

\* stop() came during the flush of the first tick; the tick went on to its
\* final send and its counter update, and then run() returned
C15_Witness ==
    /\ gen_pc = "returned"
    /\ stop_at = "send_flush"
    /\ ticks = 1
    /\ pub_exc = ""
    /\ Len(sent_batches) = 2
    /\ _total_sent = tick_batch_size
    /\ wire_total = _total_sent

\* C16: when _publish_batch raises in a tick, run() adds exactly one to
\* errors, leaves total_sent unchanged and goes on with the loop; nothing
\* raised by a publish leaves run(); the counters never decrease.
C16_PublishErrorsCounted ==
    [][/\ (pub_caller = "run" /\ gen_pc \in PublishPcs /\ gen_pc' \notin PublishPcs
           /\ pub_exc' # "")
          => /\ _errors' = _errors + 1
             /\ _total_sent' = _total_sent
             /\ gen_pc' \in {"sleep", "loop"}
             /\ run_exc' = ""
       /\ gen_pc' = "raised" => gen_pc \in {"constructed", "raised"}
       /\ _total_sent' >= _total_sent
       /\ _errors' >= _errors]_vars

\* the first tick failed to publish its two events, which counted as one
\* error, and the second tick is under way
C16_Witness ==
    /\ ticks = 2
    /\ _errors = 1
    /\ _total_sent = 0
    /\ tick_batch_size = 2
    /\ gen_pc = "adding"
    /\ _running

\* a step that ends a tick without a publish failure
CleanTickEnd ==
    \/ pub_caller = "run" /\ gen_pc \in PublishPcs /\ gen_pc' \notin PublishPcs /\ pub_exc' = ""
    \/ gen_pc = "dry_loop" /\ ticks' = ticks + 1

\* C17: for every rate R >= 1 a tick without a publish failure emits
\* max(1, R/10) events, which is a tenth of R, so that ten such ticks emit
\* exactly R events; the sleep computed for a tick is in 0..100 ms.
C17_Pacing ==
    [][/\ CleanTickEnd
          => /\ _total_sent' - _total_sent = Max(1, events_per_second \div 10)
             /\ 10 * (_total_sent' - _total_sent) = events_per_second
       /\ sleep_time' \in {-1} \cup (0..INTERVAL_MS)]_vars

\* C18: a generator that is to publish and has no connection string does
\* not come out of construction: the constructor raised, before the user
\* pool was built and before any counter or flag changed.
C18_ConfigErrorAtConstruction ==
    (gen_pc # "new" /\ ~dry_run /\ connection_string = "") =>
        /\ gen_pc = "raised"
        /\ run_exc # ""
        /\ users = <<>>
        /\ ~_running
        /\ ticks = 0
        /\ _total_sent = 0
        /\ _errors = 0

(***************************************************************************)
(* Properties of the archival writer (checked under SpecArchive).          *)
(***************************************************************************)
IsJsonObject(body) == body.utf8 /\ body.text.wf /\ body.text.data.t = "object"

\* the line the archive is to hold for an event: the object with the four
\* archival tags, or the first 8192 characters of anything else
ExpectedArchiveLine(event, clock) ==
    IF IsJsonObject(event.body)
    THEN [k \in DOMAIN event.body.text.data.d
                \cup {"_archived_at", "_partition_key", "_sequence_number",
                      "_enqueued_time"} |->
             CASE k = "_archived_at" -> Str(clock.iso)
               [] k = "_partition_key" -> event.partition_key
               [] k = "_sequence_number" -> event.sequence_number
               [] k = "_enqueued_time" -> event.enqueued_time
               [] OTHER -> event.body.text.data.d[k]]
    ELSE [_raw |-> RawStr(Slice(event.body.text.chars, ARCHIVE_MAX_CHARS)),
          _archived_at |-> Str(clock.iso),
          _parse_error |-> [t |-> "bool", v |-> "True", d |-> NoDict]]

\* the invocation ended, and not by a failure of the storage calls
ArchiveEnded ==
    arch_pc \in {"returned", "raised"} /\ arch_exc \notin UploadErrors \cup {"KeyError"}

\* C19: for every batch, whatever each payload is (a JSON object, malformed
\* JSON, JSON that is not an object), one blob is written whose body has
\* one line per input event in input order: the tagged object, or the
\* {_raw, _archived_at, _parse_error} record; nothing is validated.
C19_ArchiveKeepsEveryLine ==
    ArchiveEnded =>
        /\ arch_pc = "returned"
        /\ Len(arch_events) = arch_n
        /\ Len(payload) = arch_n
        /\ \A k \in 1..Len(payload) : payload[k] = ExpectedArchiveLine(arch_events[k], now)
        /\ blob_path \in DOMAIN blobs
        /\ blobs[blob_path] = [run |-> arch_runs, nlines |-> arch_n]

(***************************************************************************)
(* Properties of the event model (checked under SpecFn).                   *)
(***************************************************************************)
\* the field of the event is empty: None or ""
EmptyField(ev, f) == ev[f] \in {Null, Str("")}

\* the message the contract gives for an event that is not valid
RECURSIVE FirstEmpty(_, _)
FirstEmpty(ev, fields) ==
    IF fields = <<>> THEN ""
    ELSE IF EmptyField(ev, Head(fields)) THEN Head(fields)
    ELSE FirstEmpty(ev, Tail(fields))

SixFields == <<"event_id", "event_type", "user_id", "content_id", "timestamp", "device_type">>

ExpectedVerdict(ev) ==
    IF FirstEmpty(ev, SixFields) # ""
    THEN "Missing required field: " \o FirstEmpty(ev, SixFields)
    ELSE IF ev["event_type"].v \notin VALID_EVENT_TYPES
    THEN "Invalid event_type: " \o ev["event_type"].v
    ELSE IF ev["device_type"].v \notin VALID_DEVICE_TYPES
    THEN "Invalid device_type: " \o ev["device_type"].v
    ELSE ""

\* C20: validate returns True iff the six required fields are non-empty and
\* event_type and device_type are in their enumerations; otherwise it
\* raises ValueError naming the first empty required field in order, then
\* the invalid event_type, then the invalid device_type; the event is
\* unchanged.
C20_ModelValidate ==
    fn_pc = "model_validated" =>
        /\ fn_validated.ret = "True" <=>
              /\ \A k \in DOMAIN SixFields : ~EmptyField(fn_event.d, SixFields[k])
              /\ fn_event.d["event_type"].v \in VALID_EVENT_TYPES
              /\ fn_event.d["device_type"].v \in VALID_DEVICE_TYPES
        /\ fn_validated.ret = "True" <=> fn_validated.exc = ""
        /\ fn_validated.exc \in {"", "ValueError"}
        /\ fn_validated.msg = ExpectedVerdict(fn_event.d)
        /\ fn_validated.event = fn_event.d

\* an event with two empty required fields and an unknown event_type was
\* refused for the first of the empty fields
C20_Witness ==
    /\ fn_pc = "model_validated"
    /\ EmptyField(fn_event.d, "user_id")
    /\ EmptyField(fn_event.d, "device_type")
    /\ fn_event.d["device_type"] = Null
    /\ fn_event.d["event_type"] = Str("video_explode")
    /\ ~EmptyField(fn_event.d, "event_id")
    /\ fn_validated.exc = "ValueError"
    /\ fn_validated.msg = "Missing required field: user_id"

(***************************************************************************)
(* Properties of the generated events (SpecEvents).                        *)
(***************************************************************************)
\* the text after the prefix of an identifier of the model
Tails ==
    {Pad7(i) : i \in 0..9} \cup {"00" \o ToString(k) : k \in 1..9}
        \cup {"0" \o ToString(k) : k \in 10..20}

\* the texts s of the model with s.startswith("U"), with s.startswith("NF")
StartWithU == {"U" \o rest : rest \in Tails}
StartWithNF == {"NF" \o rest : rest \in Tails}

\* what the batch processor sees of an event: json.loads of its to_json()
OnTheWire(ev) == json_parse(to_json(ev))

\* C21: every event of a list generate_batch builds, for every pool of at
\* least one user, passes StreamingEvent.validate() (it returns True), has
\* its event_type and device_type in the closed enumerations, a user_id
\* that starts with "U" and a content_id that starts with "NF"; and its
\* to_json() text, decoded, makes _validate_event return the empty list.
C21_GeneratedEventsValid ==
    Len(users) >= 1 =>
        \A k \in 1..Len(gb_list) :
            LET ev == gb_list[k]
                verdict == validate(ev)
            IN  /\ verdict.exc = ""
                /\ verdict.ret = "True"
                /\ InStrSet(ev.event_type, VALID_EVENT_TYPES)
                /\ InStrSet(ev.device_type, VALID_DEVICE_TYPES)
                /\ InStrSet(ev.user_id, StartWithU)
                /\ InStrSet(ev.content_id, StartWithNF)
                /\ _validate_event(OnTheWire(ev)) = [exc |-> "", errors |-> <<>>]

\* generate_batch(2) returned a buffer event and an event of another user,
\* and the processor's validator accepts both
C21_Witness ==
    /\ gb_returned
    /\ Len(gb_list) = 2
    /\ gb_list[1].event_type = Str("buffer_event")
    /\ gb_list[1].buffer_duration_ms # Null
    /\ gb_list[2].user_id # gb_list[1].user_id
    /\ gb_list[2].device_type # gb_list[1].device_type
    /\ \A k \in 1..2 : _validate_event(OnTheWire(gb_list[k])).errors = <<>>

\* a step of SpecEvents in which a generate_batch call ends
BatchCallEnds == gen_pc = "generating" /\ gen_pc' # "generating"

\* C22: generate_batch(n) returns a list of exactly n events for every
\* n >= 0, and no step of it changes the generator: the pool keeps the size
\* num_users it was built with and the same user records, and _total_sent
\* and _errors keep their values.
C22_BatchSizeAndFrame ==
    [][/\ BatchCallEnds => gb_returned' /\ Len(gb_list') = gb_size
       /\ (gen_pc = "new" /\ gen_pc' = "constructed")
             => Len(users') = ctor_args.num_users
       /\ gen_pc \in {"constructed", "generating"}
             => UNCHANGED <<users, _total_sent, _errors>>]_vars

(***************************************************************************)
(* Properties of StreamingEvent.to_json and to_dict (SpecFn).              *)
(***************************************************************************)
\* the fields of an event whose value is not None
NotNone(ev) == {f \in DOMAIN ev : ev[f] # Null}

\* C23: for every StreamingEvent, to_json() and to_dict() hold a top-level
\* field iff its value is not None, with the value the event has; no
\* top-level null is written, and decoding to_json() gives exactly
\* to_dict().
C23_SerializedWithoutNulls ==
    fn_pc = "serialized" =>
        LET ev == fn_event.d
            text == fn_serial.json
            dict == fn_serial.dict
        IN  /\ text.tok = "object"
            /\ DOMAIN text.members = NotNone(ev)
            /\ \A f \in DOMAIN text.members : text.members[f].tok # "null"
            /\ DOMAIN dict = NotNone(ev)
            /\ \A f \in DOMAIN dict : dict[f] = ev[f]
            /\ json_parse(text) = Obj(dict)

\* an event without buffer_duration_ms, with an error_code and a None inside
\* its location was serialized: the nested null is written, the field
\* buffer_duration_ms is not
C23_Witness ==
    /\ fn_pc = "serialized"
    /\ fn_event.d["buffer_duration_ms"] = Null
    /\ fn_event.d["error_code"] = Str("E1001")
    /\ fn_event.d["event_id"] = Null
    /\ "buffer_duration_ms" \notin DOMAIN fn_serial.json.members
    /\ "error_code" \in DOMAIN fn_serial.dict
    /\ fn_serial.json.members["location"].members["city"].tok = "null"
    /\ json_parse(fn_serial.json) = Obj(fn_serial.dict)

(***************************************************************************)
(* The terminal outcome of an item (Spec).                                 *)
(***************************************************************************)
TerminalOutcomes == {"persisted", "persist_failed", "dead_lettered"}

AllowedResolutions ==
    [basic |-> {"480p"}, standard |-> {"720p", "1080p"},
     premium |-> {"1080p", "4K", "4K_HDR"}]

\* the event carries the attributes of the pool user u
CopiedFrom(ev, u) ==
    /\ ev.device_type = Str(u.device_type)
    /\ ev.device_id = Str(u.device_id)
    /\ ev.location = u.location
    /\ ev.profile_id = Str(u.profile_id)
    /\ ev.subscription_tier = Str(u.subscription_tier)

\* C25: the user_ids of the pool are pairwise distinct; every generated
\* event carries device_type, device_id, location, profile_id and
\* subscription_tier of the pool user whose user_id it has; any two events
\* of any calls with the same user_id agree on the five attributes; and the
\* resolution of an event is one its tier allows.
C25_StickyUserAttributes ==
    /\ \A i, j \in DOMAIN users : users[i].user_id = users[j].user_id => i = j
    /\ \A k \in DOMAIN gb_list :
        /\ \E i \in DOMAIN users : gb_list[k].user_id = Str(users[i].user_id)
        /\ \A i \in DOMAIN users :
              gb_list[k].user_id = Str(users[i].user_id) => CopiedFrom(gb_list[k], users[i])
        /\ gb_list[k].subscription_tier.v \in DOMAIN AllowedResolutions
        /\ gb_list[k].quality_settings.d["resolution"].v
              \in AllowedResolutions[gb_list[k].subscription_tier.v]
    /\ \A a, b \in emitted : a["user_id"] = b["user_id"] => a = b

\* on a pool of two users, events of both have been generated, and the last
\* call returned two events of one user at different resolutions
C25_Witness ==
    /\ Len(users) = 2
    /\ Cardinality(emitted) = 2
    /\ gb_returned
    /\ Len(gb_list) = 2
    /\ gb_list[1].user_id = gb_list[2].user_id
    /\ gb_list[1].quality_settings # gb_list[2].quality_settings
    /\ gb_list[1].device_id = gb_list[2].device_id

\* the floats of whole value in [500, 15000], and for a content_id those in
\* [0, duration of that content]
BufferRange == {Float(n) : n \in 500..15000}
PositionRange ==
    [c \in DOMAIN CONTENT_CATALOG |-> {Float(n) : n \in 0..CONTENT_CATALOG[c].duration}]
ContentOf(ev) == CHOOSE c \in DOMAIN CONTENT_CATALOG : Str(CONTENT_CATALOG[c].id) = ev.content_id

\* C26: buffer_duration_ms of a generated event is a number in [500, 15000]
\* if its event_type is buffer_event and is None, and omitted from the wire
\* form, for every other kind; duration_seconds is nonzero only for
\* video_stop and video_complete, so it is 0 for start, pause and buffer
\* events; playback_position_seconds lies in [0, duration of the content].
C26_KindDependentFields ==
    \A k \in DOMAIN gb_list :
        LET ev == gb_list[k]
        IN  /\ ev.buffer_duration_ms # Null <=> ev.event_type = Str("buffer_event")
            /\ ev.buffer_duration_ms # Null => ev.buffer_duration_ms \in BufferRange
            /\ ev.buffer_duration_ms = Null
                  => "buffer_duration_ms" \notin DOMAIN to_json(ev).members
            /\ ev.buffer_duration_ms # Null
                  => to_json(ev).members["buffer_duration_ms"].tok = "number"
            /\ ev.duration_seconds # Float(0)
                  => ev.event_type \in {Str("video_stop"), Str("video_complete")}
            /\ ev.duration_seconds \in PositionRange[ContentOf(ev)]
            /\ ev.playback_position_seconds \in PositionRange[ContentOf(ev)]

\* a call returned a buffer event with the longest buffering and a stop
\* event whose duration and position are the whole length of its content
C26_Witness ==
    /\ gb_returned
    /\ Len(gb_list) = 2
    /\ gb_list[1].event_type = Str("buffer_event")
    /\ gb_list[1].buffer_duration_ms = Float(15000)
    /\ gb_list[1].duration_seconds = Float(0)
    /\ gb_list[2].event_type = Str("video_stop")
    /\ gb_list[2].buffer_duration_ms = Null
    /\ gb_list[2].content_id = Str("NF003")
    /\ gb_list[2].duration_seconds = Float(8400)
    /\ gb_list[2].playback_position_seconds = Float(8400)

(***************************************************************************)
(* Failures and paths of the archive writer (SpecArchive).                 *)
(***************************************************************************)
\* the exceptions of the upload stage: the client cannot be built, or a
\* storage call raises
ArchiveWriteErrors == {"KeyError"} \cup UploadErrors

\* C27: the upload stage of archive_raw.main either writes the blob, logs
\* the batch as archived and returns, or it raises the exception of the
\* failed call (the KeyError of _get_blob_service, the error of the
\* storage call) with no blob written and nothing logged as archived; a
\* failure is never turned into a normal return.
C27_ArchiveFailureReRaised ==
    [][ArchAtUpload =>
        /\ \/ /\ arch_pc' = "returned"
              /\ arch_exc' = ""
              /\ blob_path \in DOMAIN blobs'
              /\ blobs'[blob_path] = [run |-> arch_runs, nlines |-> Len(lines)]
              /\ archived_log' = Append(archived_log, [run |-> arch_runs,
                                        path |-> blob_path, events |-> arch_n])
           \/ /\ arch_pc' = "raised"
              /\ arch_exc' \in ArchiveWriteErrors
              /\ blobs' = blobs
              /\ archived_log' = archived_log
        /\ Raised(_get_blob_service)
              => arch_pc' = "raised" /\ arch_exc' = _get_blob_service.exc]_vars

\* the upload of a batch of two lines failed in the storage call: main
\* raised its error, the container is empty and nothing is logged
C27_Witness ==
    /\ arch_pc = "raised"
    /\ arch_exc = "ServiceRequestError"
    /\ arch_n = 2
    /\ Len(lines) = 2
    /\ payload = lines
    /\ blobs = <<>>
    /\ archived_log = <<>>

\* run() is between two passes of its publishing loop, or has left it
BetweenTicks == RunCalled /\ ~dry_run /\ gen_pc \in {"loop", "sleep", "close", "returned"}

\* C28: between the ticks of run(), whatever the transport rejected or
\* failed, total_sent equals the number of events in the transport batches
\* whose send_batch call completed.
C28_TotalSentExact == BetweenTicks => _total_sent = wire_total

\* send_batch is being awaited on the current transport batch
Sending == gen_pc \in {"send_flush", "send_final"}

\* C29: _publish_batch never calls send_batch on a transport batch that
\* holds no event, neither in the flush after a "batch full" rejection nor
\* in the final send.
C29_NoEmptySend ==
    /\ Sending => batch # <<>>
    /\ \A k \in DOMAIN sent_batches : sent_batches[k] # <<>>

\* C30: the blob paths written by any two invocations of archive_raw.main
\* are distinct, so every batch logged as archived is still the object at
\* its path.
C30_DistinctBlobPaths ==
    /\ \A i, j \in DOMAIN archived_log :
          i # j => archived_log[i].path # archived_log[j].path
    /\ \A i \in DOMAIN archived_log :
          /\ archived_log[i].path \in DOMAIN blobs
          /\ blobs[archived_log[i].path].run = archived_log[i].run

====
